---------------------------- MODULE Spec2Model ----------------------------
(***************************************************************************)
(* Tachylite: the vault server (src/server.py).  The model covers the path *)
(* sandbox, the vault walker, the fingerprint cache, the session ownership *)
(* map and the request handlers that use them.                             *)
(*                                                                         *)
(* A path is a sequence of names.  Absolute paths start at the filesystem  *)
(* root <<>>.  A caller-supplied path string is the sequence of its        *)
(* "/"-separated tokens; a leading "/" token marks an absolute string.     *)
(***************************************************************************)
EXTENDS Integers, Sequences, FiniteSets, TLC

VARIABLES
    fs,             \* the filesystem: absolute path -> entry (existing paths only)
    raw_path,       \* sandbox: the caller-supplied path string under test
    sb_result,      \* sandbox: result of the latest _safe_vault_path call
    sb_prev,        \* sandbox: result of the call before it
    sb_calls,       \* sandbox: number of calls made so far
    hs_taken,       \* fingerprint stream: whether one has been computed
    hs_fs,          \* fingerprint stream: the filesystem it was computed over
    hs_walk,        \* fingerprint stream: the pairs the walk yielded
    hs_input,       \* fingerprint stream: the bytes fed to the hash
    tree_cache,     \* _tree_cache: hash and ts (by: which thread wrote each,
                    \*   ep: the vault epoch its walk saw; both for the claims)
    now,            \* time.monotonic()
    th,             \* per worker thread: position and locals of its handler
    epoch,          \* number of changes made to included files so far
    wrote_ep,       \* the epoch made by the latest completed write request
    last_call,      \* the latest _get_tree_hash call whose response was sent
    overlapped,     \* whether two requests have ever been in progress at once
    observe,        \* which facts about the calls are recorded for the claims
    wk_stack,       \* _walk_vault in progress: its stack of directories
    wk_out,         \* _walk_vault in progress: the pairs yielded so far
    wk_done,        \* the sequences yielded by the runs that have finished
    tr_reply,       \* the latest /api/tree response and the cookie it answered
    gr_reply,       \* the latest graph built: its nodes and edges, the edges
                    \*   produced before deduplication and what each
                    \*   wikilink was resolved to
    site,           \* the static build: the number of runs of build(), the
                    \*   files the latest run collected, the paths it wrote
                    \*   and what its documents say, the documents and raw
                    \*   copies of the run before it, whether the vault was
                    \*   changed between the two and since, and the order
                    \*   the filesystem lists in
    md_reply,       \* the latest text given to the markdown transformer and
                    \*   what each of its steps returned
    dl_reply,       \* the latest archive /api/download-all sent: the names
                    \*   of its members, in order
    sg_reply,       \* the latest graph generate_graph returned
    browser,        \* the page open in a browser: lastTreeHash, and for the
                    \*   claims the vault epoch its file tree was loaded at
                    \*   and the hashes it has recorded
    ALLOW_EDIT_ALL,       \* configuration: _cfg["allow_edit_all"]
    ALLOW_FILE_CREATION,  \* configuration: _cfg["allow_file_creation"]
    _session_files, \* session id -> set of relative paths the session owns
    cookie,         \* per client: the vault_sid cookie its browser holds
    requests,       \* requests sent and not yet handled
    responses,      \* responses sent and not yet received
    reply,          \* the latest request handled: what was asked, what the
                    \*   server found before acting, and what it answered
    made,           \* who created which file (and has not deleted it since)
    creates         \* number of creation requests issued so far

sandboxVars == <<raw_path, sb_result, sb_prev, sb_calls>>
hashVars == <<hs_taken, hs_fs, hs_walk, hs_input>>
cacheVars == <<tree_cache, now, th, epoch, wrote_ep, last_call,
               overlapped>>
configVars == <<ALLOW_EDIT_ALL, ALLOW_FILE_CREATION>>
netVars == <<cookie, requests, responses>>
serverVars == <<configVars, _session_files, netVars, reply, made, creates>>
walkVars == <<wk_stack, wk_out, wk_done>>
exportVars == <<site, md_reply, dl_reply, sg_reply, browser>>
derivedVars == <<walkVars, tr_reply, gr_reply, exportVars>>
vars == <<fs, sandboxVars, hashVars, cacheVars, observe, derivedVars,
          serverVars>>

(***************************************************************************)
(* Configuration (server.py:24-55, the defaults).                          *)
(***************************************************************************)
EXCLUDED_DIRS ==
    {".obsidian", "Templates", ".git", ".claude", ".trash", "__pycache__",
     "_site", ".github"}

EXCLUDED_FILES ==
    {"server.py", "build_static.py", "deploy.sh", "deploy-tachylite.sh",
     "setup-autostart.sh", "tachylite.config.json"}

\* VAULT = Path(__file__).resolve().parent: an absolute, symlink-free path.
VAULT == <<"vault">>

(***************************************************************************)
(* Paths (pathlib).                                                        *)
(***************************************************************************)
IsPrefix(p, q) == Len(p) <= Len(q) /\ SubSeq(q, 1, Len(p)) = p

Parent(p) == IF p = <<>> THEN <<>> ELSE SubSeq(p, 1, Len(p) - 1)

Name(p) == IF p = <<>> THEN "" ELSE p[Len(p)]

\* Path.relative_to(base): defined when IsRelativeTo holds, else ValueError.
IsRelativeTo(p, base) == IsPrefix(base, p)

RelativeTo(p, base) == SubSeq(p, Len(base) + 1, Len(p))

\* VAULT / raw_path: an absolute right operand replaces the left one.
IsAbsolute(raw) == raw # <<>> /\ raw[1] = "/"

Join(base, raw) == IF IsAbsolute(raw) THEN Tail(raw) ELSE base \o raw

(***************************************************************************)
(* Filesystem entries.                                                     *)
(***************************************************************************)
\* mode: whether the entry can be opened ("r") or not ("-").
Dir == [kind |-> "dir", target |-> <<>>, content |-> "", mtime |-> 0,
        mode |-> "r"]

File(c, m) == [kind |-> "file", target |-> <<>>, content |-> c, mtime |-> m,
               mode |-> "r"]

Link(t) == [kind |-> "link", target |-> t, content |-> "", mtime |-> 0,
            mode |-> "r"]

\* A file the server's user may not read.
LockedFile(c, m) == [File(c, m) EXCEPT !.mode = "-"]

\* A directory the server's user may not list.
LockedDir == [Dir EXCEPT !.mode = "-"]

Exists(p) == p \in DOMAIN fs

IsLink(p) == Exists(p) /\ fs[p].kind = "link"

\* Path.resolve() (non-strict): "." is dropped, ".." pops the real path built
\* so far, a component that is a symbolic link is replaced by its target, a
\* component that does not exist is appended as it is.
RECURSIVE ResolveFrom(_, _)
ResolveFrom(cur, toks) ==
    IF toks = <<>> THEN cur
    ELSE LET t == Head(toks)
             nxt == Append(cur, t)
         IN  IF t = "." THEN ResolveFrom(cur, Tail(toks))
             ELSE IF t = ".." THEN ResolveFrom(Parent(cur), Tail(toks))
             ELSE IF IsLink(nxt) THEN ResolveFrom(fs[nxt].target, Tail(toks))
             ELSE ResolveFrom(nxt, Tail(toks))

Resolve(p) == ResolveFrom(<<>>, p)

(***************************************************************************)
(* Strings.  A name is an atomic string; Chars gives its characters, and   *)
(* CodePoint orders characters as Python orders them (by code point).      *)
(***************************************************************************)
Alphabet ==
    <<"#", ".", "/", "0", "1", "2", "3", "4", "5", "6", "7", "8", "9", ":",
      "A", "B", "C", "D", "E", "G", "M", "N", "P", "R", "T", "X", "Y", "_",
      "a", "b", "c", "d", "e", "f", "g", "h", "i", "j", "k", "l", "m", "n",
      "o", "p", "r", "s", "t", "u", "v", "w", "x", "y", "z">>

CodePoint(c) == CHOOSE i \in 1..Len(Alphabet) : Alphabet[i] = c

Chars(name) ==
    CASE name = "vault" -> <<"v", "a", "u", "l", "t">>
      [] name = "etc" -> <<"e", "t", "c">>
      [] name = "Notes" -> <<"N", "o", "t", "e", "s">>
      [] name = "A.md" -> <<"A", ".", "m", "d">>
      [] name = "B.md" -> <<"B", ".", "m", "d">>
      [] name = "X.md" -> <<"X", ".", "m", "d">>
      [] name = "Y.md" -> <<"Y", ".", "m", "d">>
      [] name = ".git" -> <<".", "g", "i", "t">>
      [] name = "server.py" -> <<"s", "e", "r", "v", "e", "r", ".", "p", "y">>
      [] name = "out" -> <<"o", "u", "t">>
      [] name = "in" -> <<"i", "n">>
      [] name = "hid" -> <<"h", "i", "d">>
      [] name = "0a" -> <<"0", "a">>
      [] name = "3b" -> <<"3", "b">>
      [] name = "23b" -> <<"2", "3", "b">>
      [] name = "" -> <<>>
      [] name = "." -> <<".">>
      [] name = ".." -> <<".", ".">>
      [] name = "X" -> <<"X">>
      [] name = "git" -> <<"g", "i", "t">>
      [] name = "Templates" -> <<"T", "e", "m", "p", "l", "a", "t", "e", "s">>
      [] name = "a.md" -> <<"a", ".", "m", "d">>
      [] name = "A" -> <<"A">>
      [] name = "B" -> <<"B">>
      [] name = "Y" -> <<"Y">>
      [] name = "missing" -> <<"m", "i", "s", "s", "i", "n", "g">>
      [] name = "missing.md" ->
            <<"m", "i", "s", "s", "i", "n", "g", ".", "m", "d">>
      [] name = "Notes.md" -> <<"N", "o", "t", "e", "s", ".", "m", "d">>
      [] name = "gone" -> <<"g", "o", "n", "e">>
      [] name = "X_1.md" -> <<"X", "_", "1", ".", "m", "d">>
      [] name = "X_2.md" -> <<"X", "_", "2", ".", "m", "d">>
      [] name = "X_3.md" -> <<"X", "_", "3", ".", "m", "d">>
      [] name = "X_4.md" -> <<"X", "_", "4", ".", "m", "d">>
      [] name = "B.pdf" -> <<"B", ".", "p", "d", "f">>
      [] name = "X.PNG" -> <<"X", ".", "P", "N", "G">>
      [] name = "https://x" -> <<"h", "t", "t", "p", "s", ":", "/", "/", "x">>
      [] name = "#note:" -> <<"#", "n", "o", "t", "e", ":">>
      [] name = "#pdf:" -> <<"#", "p", "d", "f", ":">>
      [] name = "#img:" -> <<"#", "i", "m", "g", ":">>
      [] name = "#file:" -> <<"#", "f", "i", "l", "e", ":">>
      [] name = "/raw/" -> <<"/", "r", "a", "w", "/">>
      [] name = ".md" -> <<".", "m", "d">>
      [] name = "data" ->
            <<"d", "a", "t", "a">>
      [] name = "notes" ->
            <<"n", "o", "t", "e", "s">>
      [] name = "raw" ->
            <<"r", "a", "w">>
      [] name = "tree.json" ->
            <<"t", "r", "e", "e", ".", "j", "s", "o", "n">>
      [] name = "graph.json" ->
            <<"g", "r", "a", "p", "h", ".", "j", "s", "o", "n">>
      [] name = "index.html" ->
            <<"i", "n", "d", "e", "x", ".", "h", "t", "m", "l">>
      [] name = ".nojekyll" ->
            <<".", "n", "o", "j", "e", "k", "y", "l", "l">>
      [] name = "README.md" ->
            <<"R", "E", "A", "D", "M", "E", ".", "m", "d">>
      [] name = "notes_1.zip" ->
            <<"n", "o", "t", "e", "s", "_", "1", ".", "z", "i", "p">>
      [] name = "notes_2.zip" ->
            <<"n", "o", "t", "e", "s", "_", "2", ".", "z", "i", "p">>
      [] name = "notes_3.zip" ->
            <<"n", "o", "t", "e", "s", "_", "3", ".", "z", "i", "p">>
      [] name = "notes_4.zip" ->
            <<"n", "o", "t", "e", "s", "_", "4", ".", "z", "i", "p">>
      [] name = "A.md.json" ->
            <<"A", ".", "m", "d", ".", "j", "s", "o", "n">>
      [] name = "B.md.json" ->
            <<"B", ".", "m", "d", ".", "j", "s", "o", "n">>
      [] name = "X.md.json" ->
            <<"X", ".", "m", "d", ".", "j", "s", "o", "n">>
      [] name = "_site_a.md.json" ->
            <<"_", "s", "i", "t", "e", "_", "a", ".", "m", "d", ".", "j", "s", "o", "n">>
      [] name = "CNAME" ->
            <<"C", "N", "A", "M", "E">>
      [] name = "missing.md.json" ->
            <<"m", "i", "s", "s", "i", "n", "g", ".", "m", "d", ".", "j", "s",
              "o", "n">>
      [] name = ".json" -> <<".", "j", "s", "o", "n">>
      [] name = "Y.md.json" -> <<"Y", ".", "m", "d", ".", "j", "s", "o", "n">>
      [] name = "X.PNG.md" -> <<"X", ".", "P", "N", "G", ".", "m", "d">>
      [] name = "_site" -> <<"_", "s", "i", "t", "e">>
      [] name = "_site_a.md" ->
            <<"_", "s", "i", "t", "e", "_", "a", ".", "m", "d">>
      [] name = "build_static.py" ->
            <<"b", "u", "i", "l", "d", "_", "s", "t", "a", "t", "i", "c",
              ".", "p", "y">>

\* The names Chars tabulates, and the name a sequence of characters spells.
KnownNames ==
    {"vault", "etc", "Notes", "A.md", "B.md", "X.md", "Y.md", ".git",
     "server.py", "out", "in", "hid", "0a", "3b", "23b", "", ".", "..", "X",
     "git", "Templates", "a.md", "gone", "A", "B", "Y", "missing", "missing.md",
     "Notes.md", "X_1.md", "X_2.md", "X_3.md", "X_4.md", "B.pdf", "X.PNG",
     "https://x", "_site", "_site_a.md", "build_static.py", "#note:", "#pdf:",
     "#img:", "#file:", "/raw/", ".md", "missing.md.json", ".json", "Y.md.json",
     "X.PNG.md",
     "data", "notes", "raw", "tree.json", "graph.json", "index.html",
     ".nojekyll", "README.md", "notes_1.zip", "notes_2.zip", "notes_3.zip",
     "notes_4.zip", "A.md.json", "B.md.json", "X.md.json", "_site_a.md.json",
     "CNAME"}

NameOf(cs) == CHOOSE n \in KnownNames : Chars(n) = cs

\* Python's str < str: lexicographic by code point, a proper prefix first.
RECURSIVE SeqLess(_, _)
SeqLess(a, b) ==
    IF b = <<>> THEN FALSE
    ELSE IF a = <<>> THEN TRUE
    ELSE IF Head(a) # Head(b) THEN CodePoint(Head(a)) < CodePoint(Head(b))
    ELSE SeqLess(Tail(a), Tail(b))

NameLess(a, b) ==
    \E na \in {a}, nb \in {b} :
        \E ca \in {Chars(na)}, cb \in {Chars(nb)} : SeqLess(ca, cb)

\* str(path) of a relative path: its names joined by "/".
RECURSIVE RelStr(_)
RelStr(rel) ==
    IF rel = <<>> THEN <<".">>
    ELSE IF Len(rel) = 1 THEN Chars(rel[1])
    ELSE Chars(Head(rel)) \o <<"/">> \o RelStr(Tail(rel))

DigitChar(d) == <<"0", "1", "2", "3", "4", "5", "6", "7", "8", "9">>[d + 1]

RECURSIVE Digits(_)
Digits(n) == IF n < 10 THEN <<DigitChar(n)>>
             ELSE Append(Digits(n \div 10), DigitChar(n % 10))

\* f"{mtime}" of a float: the shortest decimal that reads back as the same
\* float.  An mtime here is a number of hundredths of a second: 152 prints
\* "1.52", 150 prints "1.5", 100 prints "1.0".
FormatMtime(m) ==
    Digits(m \div 100) \o <<".">> \o
        (IF m % 10 = 0 THEN <<DigitChar((m % 100) \div 10)>>
         ELSE <<DigitChar((m % 100) \div 10), DigitChar(m % 10)>>)

\* str.endswith
EndsWith(cs, suffix) ==
    /\ Len(suffix) <= Len(cs)
    /\ SubSeq(cs, Len(cs) - Len(suffix) + 1, Len(cs)) = suffix

\* str.strip(chars)
RECURSIVE LStrip(_, _)
LStrip(cs, chars) ==
    IF cs # <<>> /\ Head(cs) \in chars THEN LStrip(Tail(cs), chars) ELSE cs

RECURSIVE RStrip(_, _)
RStrip(cs, chars) ==
    IF cs # <<>> /\ cs[Len(cs)] \in chars
    THEN RStrip(SubSeq(cs, 1, Len(cs) - 1), chars)
    ELSE cs

Strip(cs, chars) == RStrip(LStrip(cs, chars), chars)

\* str.lower, on the letters of the alphabet
LowerChar(c) ==
    CASE c = "A" -> "a" [] c = "B" -> "b" [] c = "N" -> "n" [] c = "T" -> "t"
      [] c = "X" -> "x" [] c = "Y" -> "y" [] c = "P" -> "p" [] c = "G" -> "g"
      [] c = "C" -> "c" [] c = "D" -> "d" [] c = "E" -> "e" [] c = "M" -> "m"
      [] c = "R" -> "r"
      [] OTHER -> c

Lower(cs) == [i \in 1..Len(cs) |-> LowerChar(cs[i])]

\* werkzeug's secure_filename on one "/"-free, space-free name: characters
\* outside [A-Za-z0-9_.-] are removed, then leading and trailing "." and "_"
\* are stripped.  The result may be empty.
SafeFilenameChars ==
    {Alphabet[i] : i \in 1..Len(Alphabet)} \ {"/", ":", "#"}

secure_filename(name) ==
    NameOf(Strip(SelectSeq(Chars(name), LAMBDA c : c \in SafeFilenameChars),
                 {".", "_"}))

\* The index of the last "." of a name that starts a suffix, or 0: a leading
\* "." and a trailing "." start none.
SuffixAt(cs) ==
    LET dots == {i \in 2..Len(cs) : cs[i] = "."}
        last == CHOOSE i \in dots : \A j \in dots : j <= i
    IN  IF dots = {} \/ last = Len(cs) THEN 0 ELSE last

\* Path(name).suffix and Path(name).stem
Suffix(cs) == IF SuffixAt(cs) = 0 THEN <<>>
              ELSE SubSeq(cs, SuffixAt(cs), Len(cs))

Stem(cs) == IF SuffixAt(cs) = 0 THEN cs ELSE SubSeq(cs, 1, SuffixAt(cs) - 1)

(***************************************************************************)
(* Vault Walker.                                                           *)
(***************************************************************************)
Children(d) == {p \in DOMAIN fs : Len(p) = Len(d) + 1 /\ Parent(p) = d}

\* sorted(os.scandir(d), key=lambda e: e.name)
RECURSIVE SortByName(_)
SortByName(S) ==
    IF S = {} THEN <<>>
    ELSE LET m == CHOOSE x \in S :
                      \A y \in S \ {x} : NameLess(Name(x), Name(y))
         IN  <<m>> \o SortByName(S \ {m})

\* os.scandir(d) raises OSError when d does not lead to a directory that can
\* be listed; otherwise it lists the entries of the directory d leads to,
\* each named under d.
ScandirFails(d) ==
    \/ ~Exists(Resolve(d))
    \/ fs[Resolve(d)].kind # "dir"
    \/ fs[Resolve(d)].mode = "-"

Scandir(d) ==
    UNION {{Append(d, Name(c)) : c \in Children(real)} : real \in {Resolve(d)}}

\* What lstat finds for a directory entry e: the entry itself, a symbolic
\* link not followed.
LStat(e) == fs[Append(Resolve(Parent(e)), Name(e))]

\* Mutant: symbolic links are followed when testing for a directory.
IsDirFollow(p) == Exists(Resolve(p)) /\ fs[Resolve(p)].kind = "dir"

\* entry.is_dir(follow_symlinks=False)
IsDirNoFollow(p) == LStat(p).kind = "dir"

\* The loop of _walk_vault: pop the last directory of the stack, push its
\* non-excluded subdirectories and yield its non-excluded other entries, both
\* in name order; a directory that cannot be listed is passed over.  out is the sequence of (rel, mtime) pairs yielded so far.
RECURSIVE WalkLoop(_, _, _)
WalkLoop(root, stack, out) ==
    IF stack = <<>> THEN out
    ELSE LET d == stack[Len(stack)]
             entries == IF ScandirFails(d) THEN <<>>
                        ELSE SortByName(Children(d))
             pushed == SelectSeq(entries,
                          LAMBDA e : IsDirNoFollow(e)
                                        /\ Name(e) \notin EXCLUDED_DIRS)
             files == SelectSeq(entries,
                          LAMBDA e : ~IsDirNoFollow(e)
                                        /\ Name(e) \notin EXCLUDED_FILES)
             yielded == [i \in 1..Len(files) |->
                            <<RelativeTo(files[i], root), fs[files[i]].mtime>>]
         IN  WalkLoop(root, SubSeq(stack, 1, Len(stack) - 1) \o pushed,
                      out \o yielded)

_walk_vault(root) == WalkLoop(root, <<root>>, <<>>)

(***************************************************************************)
(* Change Detector: what _get_tree_hash feeds to the hash.                 *)
(***************************************************************************)
\* f"{rel}:{mtime}".encode()
EncodePair(pair) == RelStr(pair[1]) \o <<":">> \o FormatMtime(pair[2])

\* h.update(...) for each walked pair, in order: the concatenation.
RECURSIVE HashInputOf(_)
HashInputOf(walk) ==
    IF walk = <<>> THEN <<>>
    ELSE EncodePair(Head(walk)) \o HashInputOf(Tail(walk))

\* hexdigest(): the hash is taken as collision-free, so a digest is
\* identified with the byte stream it was computed from.
Digest(walk) == HashInputOf(walk)

(***************************************************************************)
(* Path Sandbox.                                                           *)
(***************************************************************************)
None == [ok |-> FALSE, path |-> <<>>]

Some(p) == [ok |-> TRUE, path |-> p]

\* Mutant: the excluded-file test is dropped.
SafeVaultPathNoFileCheck(raw) ==
    IF raw = <<>> THEN None
    ELSE LET candidate == Resolve(Join(VAULT, raw))
         IN  IF ~IsRelativeTo(candidate, VAULT) THEN None
             ELSE IF \E i \in 1..Len(RelativeTo(candidate, VAULT)) :
                        RelativeTo(candidate, VAULT)[i] \in EXCLUDED_DIRS
                  THEN None
             ELSE Some(candidate)

\* Mutant: the containment test (relative_to) is dropped.
SafeVaultPathNoContainment(raw) ==
    IF raw = <<>> THEN None
    ELSE LET candidate == Resolve(Join(VAULT, raw))
         IN  IF \E i \in 1..Len(candidate) : candidate[i] \in EXCLUDED_DIRS
             THEN None
             ELSE IF Name(candidate) \in EXCLUDED_FILES THEN None
             ELSE Some(candidate)

_safe_vault_path(raw) ==
    IF raw = <<>> THEN None
    ELSE LET candidate == Resolve(Join(VAULT, raw))
         IN  IF ~IsRelativeTo(candidate, VAULT) THEN None
             ELSE LET rel == RelativeTo(candidate, VAULT)
                  IN  IF \E i \in 1..Len(rel) : rel[i] \in EXCLUDED_DIRS
                      THEN None
                      ELSE IF Name(candidate) \in EXCLUDED_FILES THEN None
                      ELSE Some(candidate)

(***************************************************************************)
(* Change Detector: the fingerprint cache and the threads that use it.     *)
(***************************************************************************)
\* POLL_INTERVAL = max(1, int(cfg["poll_interval"])); _TREE_CACHE_TTL is it.
POLL_INTERVAL == 2

_TREE_CACHE_TTL == POLL_INTERVAL

Threads == {1, 2}

\* _tree_cache["hash"] = None
NoneHash == <<"None">>

\* _tree_cache: dict = {"hash": None, "ts": 0.0}
EmptyCache == [hash |-> NoneHash, ts |-> 0, hashBy |-> 0, tsBy |-> 0, ep |-> 0]

NoCall == [val |-> NoneHash, walked |-> FALSE, made |-> FALSE]

\* A thread's locals (pc, now, digest, ret) and what the claims need to know
\* of its call: the epoch its value was walked at (retEp), the epoch made by
\* the latest write completed before it started (need), whether the vault
\* stayed unchanged during it (clean), the cache it found when it started
\* (snap), whether another thread wrote the cache during it (dist), whether
\* it walked, who wrote the timestamp it tested (tsBy), and whether the hash
\* it returned from the cache was written by someone else than that (torn).
IdleThread ==
    [pc |-> "idle", now |-> 0, digest |-> NoneHash, ret |-> NoneHash,
     walkEp |-> 0, retEp |-> 0, need |-> 0, clean |-> TRUE,
     snap |-> [has |-> FALSE, ts |-> 0], dist |-> FALSE,
     walked |-> FALSE, tsBy |-> 0, torn |-> FALSE]

\* No walk, tree or graph has been asked for.
NoTree == [called |-> FALSE, sid |-> 0, tree |-> <<>>]

NoGraph ==
    [called |-> FALSE, nodes |-> <<>>, edges |-> <<>>, produced |-> <<>>,
     resolved |-> <<>>]

\* No static build has run and the output directory does not exist.
NoSite ==
    [runs |-> 0, ok |-> FALSE, files |-> <<>>, docs |-> <<>>, written |-> {},
     prev |-> [ok |-> FALSE, docs |-> <<>>, raw |-> <<>>],
     same |-> FALSE, edited |-> FALSE, edits |-> 0, order |-> <<>>,
     stamp |-> 0]

\* The markdown transformer has not been called.
NoMarkdown ==
    [step |-> "none", pieces |-> <<>>, text |-> <<>>, wikilinked |-> <<>>,
     linked |-> <<>>, relinked |-> <<>>]

\* No archive has been asked for.
NoDownload == [called |-> FALSE, ok |-> FALSE, names |-> <<>>]

\* The page as its script leaves it when loaded: let lastTreeHash = null,
\* the tree fetched once.
PageLoaded == [last |-> NoneHash, treeEp |-> 0, seen |-> {}]

\* Nothing has been asked of the endpoints that answer from the vault alone.
RestIdle ==
    dl_reply = NoDownload /\ sg_reply = NoGraph /\ browser = PageLoaded

DerivedIdle ==
    /\ wk_stack = <<>>
    /\ wk_out = <<>>
    /\ wk_done = <<>>
    /\ tr_reply = NoTree
    /\ gr_reply = NoGraph
    /\ site = NoSite
    /\ md_reply = NoMarkdown
    /\ RestIdle

\* The state of the cache machinery when no request has been made.  The
\* monotonic clock is at least one TTL past its zero.
CacheIdle ==
    /\ tree_cache = EmptyCache
    /\ now = POLL_INTERVAL
    /\ th = [t \in Threads |-> IdleThread]
    /\ epoch = 0
    /\ wrote_ep = 0
    /\ last_call = NoCall
    /\ overlapped = FALSE

\* Mutant: the cached value is fresh up to and including TTL.
FreshEnoughInclusive(now_t, ts) == (now_t - ts) <= _TREE_CACHE_TTL

\* (now - _tree_cache["ts"]) < _TREE_CACHE_TTL
FreshEnough(now_t, ts) == (now_t - ts) < _TREE_CACHE_TTL

\* A write to _tree_cache by thread u lands in the middle of every other
\* thread's running request.
Disturbed(u, f) ==
    [t \in Threads |->
        IF observe = "ttl" /\ t # u /\ f[t].pc # "idle"
        THEN [f[t] EXCEPT !.dist = TRUE]
        ELSE f[t]]

\* A change of the vault lands in the middle of every running request.
Dirtied(f) ==
    [t \in Threads |->
        IF observe # "calls"
              \/ f[t].pc \in {"idle", "invalidate_hash", "invalidate_ts"}
        THEN f[t]
        ELSE [f[t] EXCEPT !.clean = FALSE]]

(***************************************************************************)
(* Sessions: the ownership map and the clients that hold session cookies.  *)
(***************************************************************************)
Clients == {"c1", "c2"}

\* request.cookies.get(_SESSION_COOKIE): the cookie is absent.
NoCookie == 0

\* No filesystem entry.
Absent == [kind |-> "none", target |-> <<>>, content |-> "", mtime |-> 0,
           mode |-> "-"]

\* A request body value: a JSON string, or a JSON value of another type.
Text(s) == [type |-> "str", val |-> s]

NotText == [type |-> "int", val |-> "5"]

NoReply ==
    [kind |-> "none", status |-> 0, sid |-> NoCookie,
     act |-> "none", path |-> <<>>, rel |-> <<>>, set_cookie |-> NoCookie,
     content |-> Text(""), valid |-> FALSE, mine |-> FALSE,
     before |-> Absent]

\* Nobody has made a request yet: _session_files = {}.
NobodyYet ==
    /\ _session_files = <<>>
    /\ cookie = [c \in Clients |-> NoCookie]
    /\ requests = {}
    /\ responses = {}
    /\ reply = NoReply
    /\ made = {}
    /\ creates = 0

\* The server as started with the default configuration.
ServerIdle ==
    /\ ALLOW_EDIT_ALL = FALSE
    /\ ALLOW_FILE_CREATION = TRUE
    /\ NobodyYet

(***************************************************************************)
(* Specification SpecSandbox: _safe_vault_path applied, repeatedly, to     *)
(* every path string of up to MaxLen tokens over a filesystem holding      *)
(* excluded entries and symbolic links into and out of the vault.          *)
(***************************************************************************)
MaxLen == 3

MaxCalls == 2

SandboxTokens ==
    {"..", ".", "vault", "Notes", "A.md", "B.md", ".git", "server.py", "out",
     "in", "hid", "etc"}

SandboxFs ==
    ( <<"vault">> :> Dir
   @@ <<"vault", "Notes">> :> Dir
   @@ <<"vault", "B.md">> :> File("b", 1)
   @@ <<"vault", "Notes", "A.md">> :> File("a", 1)
   @@ <<"vault", "Notes", "server.py">> :> File("s", 1)
   @@ <<"vault", ".git">> :> Dir
   @@ <<"vault", ".git", "A.md">> :> File("g", 1)
   @@ <<"vault", "server.py">> :> File("s", 1)
   @@ <<"vault", "out">> :> Link(<<"etc">>)
   @@ <<"vault", "in">> :> Link(<<"vault", "Notes">>)
   @@ <<"vault", "hid">> :> Link(<<"vault", ".git">>)
   @@ <<"etc">> :> Dir
   @@ <<"etc", "A.md">> :> File("e", 1) )

TokenSeqs(n) == UNION {[1..k -> SandboxTokens] : k \in 0..n}

RawInputs == TokenSeqs(MaxLen) \cup {<<"/">> \o s : s \in TokenSeqs(MaxLen)}

InitSandbox ==
    /\ fs = SandboxFs
    /\ raw_path \in RawInputs
    /\ sb_result = None
    /\ sb_prev = None
    /\ sb_calls = 0
    /\ hs_taken = FALSE /\ hs_fs = SandboxFs /\ hs_walk = <<>> /\ hs_input = <<>>
    /\ CacheIdle
    /\ observe = "none"
    /\ DerivedIdle
    /\ ServerIdle

SafeCall ==
    /\ sb_calls < MaxCalls
    /\ sb_prev' = sb_result
    /\ sb_result' = _safe_vault_path(raw_path)
    /\ sb_calls' = sb_calls + 1
    /\ UNCHANGED <<fs, raw_path, hashVars, cacheVars, observe, derivedVars,
                 serverVars>>

NextSandbox == SafeCall

SpecSandbox == InitSandbox /\ [][NextSandbox]_vars

\* The string contains a "../" sequence: a ".." token followed by another.
ContainsDotDotSlash(raw) == \E i \in 1..(Len(raw) - 1) : raw[i] = ".."

\* What the string resolves to, and the three grounds for rejection.
ResolvedOf(raw) == Resolve(Join(VAULT, raw))

EscapesVault(raw) == ~IsPrefix(VAULT, ResolvedOf(raw))

HasExcludedSegment(raw) ==
    \E i \in (Len(VAULT) + 1)..Len(ResolvedOf(raw)) :
        ResolvedOf(raw)[i] \in EXCLUDED_DIRS

HasExcludedName(raw) == Name(ResolvedOf(raw)) \in EXCLUDED_FILES

\* C3: for a non-empty path string, _safe_vault_path rejects exactly when the
\* resolved path is not under the vault root (the root itself counts as
\* under it), or a segment of the root-relative path is an excluded
\* directory name, or the final name is an excluded file name; otherwise it
\* returns the resolved absolute path; a repeated call returns the same.
C3_SandboxCharacterisation ==
    (sb_calls > 0 /\ raw_path # <<>>) =>
        /\ sb_result.ok <=>
              ~(EscapesVault(raw_path) \/ HasExcludedSegment(raw_path)
                  \/ HasExcludedName(raw_path))
        /\ sb_result.ok => sb_result.path = ResolvedOf(raw_path)
        /\ sb_calls > 1 => sb_prev = sb_result

\* Witness: a string through the inward symbolic link was accepted, twice,
\* with a resolved path that differs from the joined one.
C3_Witness ==
    /\ sb_calls = 2
    /\ sb_result.ok
    /\ \E i \in 1..Len(raw_path) : raw_path[i] = "in"
    /\ sb_result.path = <<"vault", "Notes", "A.md">>

\* C4 as stated: every string with a "../" sequence or an absolute prefix is
\* rejected.
C4_Original ==
    (sb_calls > 0 /\ (ContainsDotDotSlash(raw_path) \/ IsAbsolute(raw_path)))
        => ~sb_result.ok

\* C4 amended: a string with a "../" sequence or an absolute prefix is
\* rejected whenever it resolves outside the vault root, and when one is
\* accepted the returned path lies under the vault root.
C4_Amended ==
    (sb_calls > 0 /\ (ContainsDotDotSlash(raw_path) \/ IsAbsolute(raw_path)))
        => /\ EscapesVault(raw_path) => ~sb_result.ok
           /\ sb_result.ok => IsPrefix(VAULT, sb_result.path)

\* Witness: "Notes/../B.md", which names an existing file of the vault, was
\* accepted.
C4_Witness ==
    /\ sb_calls > 0
    /\ raw_path = <<"Notes", "..", "B.md">>
    /\ sb_result = Some(<<"vault", "B.md">>)
    /\ fs[sb_result.path].kind = "file"

(***************************************************************************)
(* Specification SpecHash: files of a vault are created, removed and       *)
(* touched directly on disk, and the byte stream of a fingerprint walk is  *)
(* recorded now and then.                                                  *)
(***************************************************************************)
HashFs0 ==
    ( <<"vault">> :> Dir
   @@ <<"vault", ".git">> :> Dir
   @@ <<"vault", "0a">> :> File("", 150) )

\* The files that may exist, each with the mtimes it may carry.
HashMtimes ==
    ( <<"vault", "0a">> :> {100, 150, 152}
   @@ <<"vault", "3b">> :> {100}
   @@ <<"vault", "23b">> :> {100}
   @@ <<"vault", "server.py">> :> {100, 150}
   @@ <<"vault", ".git", "0a">> :> {100, 150} )

InitHash ==
    /\ fs = HashFs0
    /\ hs_taken = FALSE /\ hs_fs = HashFs0 /\ hs_walk = <<>> /\ hs_input = <<>>
    /\ raw_path = <<>> /\ sb_result = None /\ sb_prev = None /\ sb_calls = 0
    /\ CacheIdle
    /\ observe = "none"
    /\ DerivedIdle
    /\ ServerIdle

DiskCreate(p, m) ==
    /\ p \notin DOMAIN fs
    /\ fs' = fs @@ (p :> File("", m))
    /\ UNCHANGED <<sandboxVars, hashVars, cacheVars, observe, derivedVars,
                 serverVars>>

DiskTouch(p, m) ==
    /\ p \in DOMAIN fs
    /\ fs[p].mtime # m
    /\ fs' = [fs EXCEPT ![p].mtime = m]
    /\ UNCHANGED <<sandboxVars, hashVars, cacheVars, observe, derivedVars,
                 serverVars>>

DiskRemove(p) ==
    /\ p \in DOMAIN fs
    /\ fs' = [q \in DOMAIN fs \ {p} |-> fs[q]]
    /\ UNCHANGED <<sandboxVars, hashVars, cacheVars, observe, derivedVars,
                 serverVars>>

\* The walk and h.update loop of _get_tree_hash.
FingerprintWalk ==
    /\ hs_taken' = TRUE
    /\ hs_fs' = fs
    /\ hs_walk' = _walk_vault(VAULT)
    /\ hs_input' = HashInputOf(_walk_vault(VAULT))
    /\ UNCHANGED <<fs, sandboxVars, cacheVars, observe, derivedVars,
                 serverVars>>

NextHash ==
    \/ \E p \in DOMAIN HashMtimes : \E m \in HashMtimes[p] : DiskCreate(p, m)
    \/ \E p \in DOMAIN HashMtimes : \E m \in HashMtimes[p] : DiskTouch(p, m)
    \/ \E p \in DOMAIN HashMtimes : DiskRemove(p)
    \/ FingerprintWalk

SpecHash == InitHash /\ [][NextHash]_vars

\* A file is included when no directory above it (below the root) is an
\* excluded directory and its own name is not an excluded file.
IsIncludedFile(f, p) ==
    /\ f[p].kind = "file"
    /\ IsPrefix(VAULT, p)
    /\ \A i \in (Len(VAULT) + 1)..(Len(p) - 1) : p[i] \notin EXCLUDED_DIRS
    /\ Name(p) \notin EXCLUDED_FILES

IncludedState(f) ==
    {<<p, f[p].mtime>> : p \in {q \in DOMAIN f : IsIncludedFile(f, q)}}

\* C6 as stated: the byte stream is an injective encoding of the walked
\* pairs - a vault whose included paths or mtimes differ from those of the
\* recorded walk gives a different stream - and a vault that differs from it
\* only in excluded files gives the same stream.
C6_Original ==
    hs_taken =>
        /\ IncludedState(fs) # IncludedState(hs_fs)
              => HashInputOf(_walk_vault(VAULT)) # hs_input
        /\ IncludedState(fs) = IncludedState(hs_fs)
              => HashInputOf(_walk_vault(VAULT)) = hs_input

\* The part of C6 that the code keeps: excluded files never reach the stream.
C6_ExcludedPart ==
    hs_taken =>
        (IncludedState(fs) = IncludedState(hs_fs)
            => HashInputOf(_walk_vault(VAULT)) = hs_input)

(***************************************************************************)
(* Specification SpecCache: NThreads worker threads serve check requests   *)
(* (_get_tree_hash) and PUT requests (write, then _invalidate_tree_cache), *)
(* one statement at a time, while the clock advances and the file is also  *)
(* edited directly on disk.                                                *)
(***************************************************************************)
MaxChanges == 2

MaxTicks == 2

CacheFile == <<"vault", "0a">>

\* Every change stamps the file with a later mtime.
MtimeAt(e) == 100 * (e + 1)

CacheFs0 ==
    ( <<"vault">> :> Dir
   @@ CacheFile :> File("", MtimeAt(0))
   @@ <<"vault", "server.py">> :> File("", MtimeAt(0)) )

\* The start-up state; what is recorded about the calls is either how they
\* relate to each other and to the writes ("calls") or what each found in the
\* cache when it started ("ttl").
InitCacheObserving(what) ==
    /\ fs = CacheFs0
    /\ CacheIdle
    /\ observe = what
    /\ DerivedIdle
    /\ ServerIdle
    /\ raw_path = <<>> /\ sb_result = None /\ sb_prev = None /\ sb_calls = 0
    /\ hs_taken = FALSE /\ hs_fs = HashFs0 /\ hs_walk = <<>> /\ hs_input = <<>>

InitCache == InitCacheObserving("calls")

InitCacheTtl == InitCacheObserving("ttl")

cacheFrame == <<sandboxVars, hashVars, observe, derivedVars,
                 serverVars>>

\* A request starts on thread t: it overlaps any request in progress.
Starts(t) ==
    overlapped' = (overlapped \/ (observe = "calls"
                                    /\ \E u \in Threads \ {t} :
                                          th[u].pc # "idle"))

\* api_check -> _get_tree_hash, line 85: now = time.monotonic()
StartCheck(t) ==
    /\ th[t].pc = "idle"
    /\ th' = [th EXCEPT ![t] =
                 [IdleThread EXCEPT !.pc = "read_hash", !.now = now,
                                    !.need = IF observe = "calls"
                                             THEN wrote_ep ELSE 0,
                                    !.snap = IF observe = "ttl"
                                             THEN [has |-> tree_cache.hash
                                                              # NoneHash,
                                                   ts |-> tree_cache.ts]
                                             ELSE IdleThread.snap]]
    /\ UNCHANGED <<fs, tree_cache, now, epoch, wrote_ep, last_call,
                   cacheFrame>>
    /\ Starts(t)

\* line 86, left operand: _tree_cache["hash"] is not None
ReadHash(t) ==
    /\ th[t].pc = "read_hash"
    /\ th' = [th EXCEPT ![t].pc =
                 IF tree_cache.hash # NoneHash THEN "read_ts" ELSE "walk"]
    /\ UNCHANGED <<fs, tree_cache, now, epoch, wrote_ep, last_call,
                   cacheFrame, overlapped>>

\* line 86, right operand: (now - _tree_cache["ts"]) < _TREE_CACHE_TTL
ReadTs(t) ==
    /\ th[t].pc = "read_ts"
    /\ th' = [th EXCEPT ![t].pc =
                 IF FreshEnough(th[t].now, tree_cache.ts)
                 THEN "return_cached" ELSE "walk",
                        ![t].tsBy =
                 IF observe = "calls" /\ FreshEnough(th[t].now, tree_cache.ts)
                 THEN tree_cache.tsBy ELSE 0]
    /\ UNCHANGED <<fs, tree_cache, now, epoch, wrote_ep, last_call,
                   cacheFrame, overlapped>>

\* line 87: return _tree_cache["hash"]
ReturnCached(t) ==
    /\ th[t].pc = "return_cached"
    /\ th' = [th EXCEPT ![t].pc = "done", ![t].ret = tree_cache.hash,
                        ![t].retEp = tree_cache.ep,
                        ![t].torn = (tree_cache.hashBy # th[t].tsBy),
                        ![t].tsBy = 0]
    /\ UNCHANGED <<fs, tree_cache, now, epoch, wrote_ep, last_call,
                   cacheFrame, overlapped>>

\* lines 88-91: the walk and the digest
Walk(t) ==
    /\ th[t].pc = "walk"
    /\ th' = [th EXCEPT ![t].pc = "store_hash",
                        ![t].digest = Digest(_walk_vault(VAULT)),
                        ![t].walkEp = epoch,
                        ![t].walked = TRUE]
    /\ UNCHANGED <<fs, tree_cache, now, epoch, wrote_ep, last_call,
                   cacheFrame, overlapped>>

\* line 92: _tree_cache["hash"] = digest
StoreHash(t) ==
    /\ th[t].pc = "store_hash"
    /\ tree_cache' = [tree_cache EXCEPT !.hash = th[t].digest,
                                        !.hashBy = IF observe = "calls"
                                                   THEN t ELSE 0,
                                        !.ep = th[t].walkEp]
    /\ th' = Disturbed(t, [th EXCEPT ![t].pc = "store_ts"])
    /\ UNCHANGED <<fs, now, epoch, wrote_ep, last_call, cacheFrame, overlapped>>

\* Mutant: the refresher returns what the cache holds when it returns.
RefreshResultFromCache(digest, cache) == cache.hash

\* line 94: return digest
RefreshResult(digest, cache) == digest

\* lines 93-94: _tree_cache["ts"] = now; return digest
StoreTs(t) ==
    /\ th[t].pc = "store_ts"
    /\ tree_cache' = [tree_cache EXCEPT !.ts = th[t].now,
                                        !.tsBy = IF observe = "calls"
                                                 THEN t ELSE 0]
    /\ th' = Disturbed(t,
                [th EXCEPT ![t].pc = "done",
                           ![t].ret = RefreshResult(th[t].digest, tree_cache),
                           ![t].retEp = th[t].walkEp,
                           ![t].walkEp = 0,
                           ![t].digest = NoneHash])
    /\ UNCHANGED <<fs, now, epoch, wrote_ep, last_call, cacheFrame, overlapped>>

\* api_check, line 274: the response is sent
FinishCheck(t) ==
    /\ th[t].pc = "done"
    /\ last_call' = IF observe = "calls" /\ th[t].clean
                    THEN [val |-> th[t].ret, walked |-> th[t].walked,
                          made |-> TRUE]
                    ELSE last_call
    /\ th' = [th EXCEPT ![t] = IdleThread]
    /\ UNCHANGED <<fs, tree_cache, now, epoch, wrote_ep, cacheFrame, overlapped>>

\* _api_note_put, line 309: fpath.write_text(content)
PutWrite(t) ==
    /\ th[t].pc = "idle"
    /\ epoch < MaxChanges
    /\ epoch' = epoch + 1
    /\ fs' = [fs EXCEPT ![CacheFile].mtime = MtimeAt(epoch + 1)]
    /\ th' = Dirtied([th EXCEPT ![t] =
                 [IdleThread EXCEPT !.pc = "invalidate_hash",
                                    !.walkEp = epoch + 1]])
    /\ last_call' = NoCall
    /\ UNCHANGED <<tree_cache, now, wrote_ep, cacheFrame>>
    /\ Starts(t)

\* _invalidate_tree_cache, line 98: _tree_cache["hash"] = None
InvalidateHash(t) ==
    /\ th[t].pc = "invalidate_hash"
    /\ tree_cache' = [tree_cache EXCEPT !.hash = NoneHash, !.hashBy = 0,
                                        !.ep = 0]
    /\ th' = Disturbed(t, [th EXCEPT ![t].pc = "invalidate_ts"])
    /\ UNCHANGED <<fs, now, epoch, wrote_ep, last_call, cacheFrame, overlapped>>

\* _invalidate_tree_cache, line 99: _tree_cache["ts"] = 0.0; then
\* _api_note_put, line 311: the response is sent
InvalidateTs(t) ==
    /\ th[t].pc = "invalidate_ts"
    /\ tree_cache' = [tree_cache EXCEPT !.ts = 0, !.tsBy = 0]
    /\ wrote_ep' = IF th[t].walkEp > wrote_ep THEN th[t].walkEp ELSE wrote_ep
    /\ th' = Disturbed(t, [th EXCEPT ![t] = IdleThread])
    /\ UNCHANGED <<fs, now, epoch, last_call, cacheFrame, overlapped>>

\* The file is edited outside the server: no invalidation.
DiskEdit ==
    /\ epoch < MaxChanges
    /\ epoch' = epoch + 1
    /\ fs' = [fs EXCEPT ![CacheFile].mtime = MtimeAt(epoch + 1)]
    /\ th' = Dirtied(th)
    /\ last_call' = NoCall
    /\ UNCHANGED <<tree_cache, now, wrote_ep, cacheFrame, overlapped>>

Tick ==
    /\ now < POLL_INTERVAL + MaxTicks
    /\ now' = now + 1
    /\ UNCHANGED <<fs, tree_cache, th, epoch, wrote_ep, last_call,
                   cacheFrame, overlapped>>

NextCache ==
    \/ \E t \in Threads : StartCheck(t)
    \/ \E t \in Threads : ReadHash(t)
    \/ \E t \in Threads : ReadTs(t)
    \/ \E t \in Threads : ReturnCached(t)
    \/ \E t \in Threads : Walk(t)
    \/ \E t \in Threads : StoreHash(t)
    \/ \E t \in Threads : StoreTs(t)
    \/ \E t \in Threads : FinishCheck(t)
    \/ \E t \in Threads : PutWrite(t)
    \/ \E t \in Threads : InvalidateHash(t)
    \/ \E t \in Threads : InvalidateTs(t)
    \/ DiskEdit
    \/ Tick

SpecCache == InitCache /\ [][NextCache]_vars

SpecCacheTtl == InitCacheTtl /\ [][NextCache]_vars

\* A call that has returned and during which the vault did not change.
CleanDone(t) == th[t].pc = "done" /\ th[t].clean

\* C5 as stated: two _get_tree_hash calls with no change of an included file
\* from the start of the one to the end of the other return the same
\* fingerprint.  (last_call is forgotten at every change.)  It is stated
\* here for the runs in which no two requests ever overlap, where the claim
\* is at its weakest.
C5_Original ==
    ~overlapped =>
        \A t \in Threads :
            (CleanDone(t) /\ last_call.made) => th[t].ret = last_call.val

\* C5 amended: two _get_tree_hash calls that both recompute (neither answers
\* from the cache), with no change of an included file from the start of the
\* one to the end of the other, return the same fingerprint.
C5_Amended ==
    \A t \in Threads :
        (CleanDone(t) /\ th[t].walked) =>
            /\ (last_call.made /\ last_call.walked)
                  => th[t].ret = last_call.val
            /\ \A u \in Threads :
                  (CleanDone(u) /\ th[u].walked) => th[u].ret = th[t].ret

\* Witness: after a change, a recomputing call has returned while an earlier
\* recomputing call of the same epoch is on record, and requests have
\* overlapped.
C5_Witness ==
    \E t \in Threads :
        /\ CleanDone(t) /\ th[t].walked
        /\ last_call.made /\ last_call.walked
        /\ epoch > 0 /\ overlapped

\* C7: a call during which no other thread writes the cache returns the
\* cached value, without walking, when it found a cached hash stored less
\* than TTL before; otherwise (no hash, or TTL or more elapsed) it walks and
\* leaves its fingerprint (that of the vault as it was walked) in the cache
\* with the time it read on entry.
C7_TtlCache ==
    \A t \in Threads :
        (th[t].pc = "done" /\ ~th[t].dist) =>
            IF th[t].snap.has
                  /\ (th[t].now - th[t].snap.ts) < _TREE_CACHE_TTL
            THEN /\ ~th[t].walked
                 /\ th[t].ret = tree_cache.hash
                 /\ th[t].ret # NoneHash
                 /\ tree_cache.ts = th[t].snap.ts
            ELSE /\ th[t].walked
                 /\ th[t].ret # NoneHash
                 /\ tree_cache.hash = th[t].ret
                 /\ tree_cache.ts = th[t].now
                 /\ fs[CacheFile].mtime = MtimeAt(th[t].retEp)
                       => th[t].ret = Digest(_walk_vault(VAULT))

\* Witness: one call found a hash stored exactly TTL before and walked, and a
\* call after it was answered from the cache.
C7_Witness ==
    \E t, u \in Threads :
        /\ th[t].pc = "done" /\ ~th[t].dist /\ th[t].walked
        /\ th[t].snap.has /\ th[t].now - th[t].snap.ts = _TREE_CACHE_TTL
        /\ th[u].pc = "done" /\ ~th[u].dist /\ ~th[u].walked

\* C8 as stated: a check that starts after a write request has completed
\* returns a fingerprint walked after that write.
C8_Original ==
    \A t \in Threads :
        (th[t].pc = "done" /\ th[t].ret # NoneHash)
            => th[t].retEp >= th[t].need

\* C9 as stated: every call returns a digest, never the None placeholder,
\* and a hash returned from the cache was written by the refresh that wrote
\* the timestamp the call tested.
C9_Original ==
    \A t \in Threads :
        th[t].pc = "done" => (th[t].ret # NoneHash /\ ~th[t].torn)

\* The second half of C9 alone: a digest returned from the cache was written
\* by the refresh that wrote the timestamp the call tested.
C9_TornPair ==
    \A t \in Threads :
        (th[t].pc = "done" /\ th[t].ret # NoneHash) => ~th[t].torn

(***************************************************************************)
(* Filesystem operations the request handlers use.                         *)
(***************************************************************************)
\* The kernel's walk along a path: every component but the last must lead to
\* a directory, a symbolic link is followed, a missing component fails.
RECURSIVE LookupFrom(_, _)
LookupFrom(cur, toks) ==
    IF toks = <<>> THEN Some(cur)
    ELSE IF cur # <<>> /\ ~(Exists(cur) /\ fs[cur].kind = "dir") THEN None
    ELSE LET t == Head(toks)
             nxt == Append(cur, t)
         IN  IF t = "." THEN LookupFrom(cur, Tail(toks))
             ELSE IF t = ".." THEN LookupFrom(Parent(cur), Tail(toks))
             ELSE IF ~Exists(nxt) THEN None
             ELSE IF IsLink(nxt)
                  THEN LookupFrom(<<>>, fs[nxt].target \o Tail(toks))
             ELSE LookupFrom(nxt, Tail(toks))

\* The symbolic links the kernel follows on its walk along a path.
RECURSIVE LinksFrom(_, _)
LinksFrom(cur, toks) ==
    IF toks = <<>> THEN 0
    ELSE IF cur # <<>> /\ ~(Exists(cur) /\ fs[cur].kind = "dir") THEN 0
    ELSE LET t == Head(toks)
             nxt == Append(cur, t)
         IN  IF t = "." THEN LinksFrom(cur, Tail(toks))
             ELSE IF t = ".." THEN LinksFrom(Parent(cur), Tail(toks))
             ELSE IF ~Exists(nxt) THEN 0
             ELSE IF IsLink(nxt)
                  THEN 1 + LinksFrom(<<>>, fs[nxt].target \o Tail(toks))
             ELSE LinksFrom(nxt, Tail(toks))

\* The walk fails with ELOOP once it has followed more links than the
\* system allows on one path (40 on Linux; the model scales it down).
MAXSYMLINKS == 3

TooManyLinks(p) == LinksFrom(<<>>, p) > MAXSYMLINKS

\* What stat() finds at a path: "none" when the walk fails.
StatKind(p) ==
    LET r == LookupFrom(<<>>, p)
    IN  IF ~r.ok THEN "none"
        ELSE IF r.path = <<>> THEN "dir"
        ELSE fs[r.path].kind

\* Path.exists() and Path.is_file()
PathExists(p) == StatKind(p) # "none"

is_file(p) == StatKind(p) = "file"

\* VAULT.rglob(name) for a name without wildcards: every entry of that name
\* below root, reached through directories only (links are not descended
\* into, a directory that cannot be listed is passed over).
RGlob(root, name) ==
    {p \in DOMAIN fs :
        /\ IsPrefix(root, p) /\ Len(p) > Len(root)
        /\ Name(p) = name
        /\ \A k \in (Len(root) + 1)..(Len(p) - 1) :
              /\ fs[SubSeq(p, 1, k)].kind = "dir"
              /\ fs[SubSeq(p, 1, k)].mode # "-"}

\* Path.mkdir(parents=True, exist_ok=True) raises when a component exists and
\* is not a directory; otherwise it creates the missing ones.
MkdirFails(d) ==
    \E k \in 1..Len(d) :
        SubSeq(d, 1, k) \in DOMAIN fs /\ fs[SubSeq(d, 1, k)].kind # "dir"

MkdirParents(f, d) ==
    [p \in DOMAIN f \cup {SubSeq(d, 1, k) : k \in 1..Len(d)} |->
        IF p \in DOMAIN f THEN f[p] ELSE Dir]

\* Path.write_text(content) / FileStorage.save on a real path.  The time the
\* write stamps on the file plays no part in the handlers and is left at 1.
WriteText(f, p, c) ==
    [q \in DOMAIN f \cup {p} |-> IF q = p THEN File(c, 1) ELSE f[q]]

\* Path.unlink()
Unlink(f, p) == [q \in DOMAIN f \ {p} |-> f[q]]

\* _invalidate_tree_cache(), run to its end
Invalidated(cache) ==
    [cache EXCEPT !.hash = NoneHash, !.hashBy = 0, !.ep = 0,
                  !.ts = 0, !.tsBy = 0]

(***************************************************************************)
(* Session ownership.  A relative path stands for its str(): names hold no *)
(* "/", so the two determine each other.                                   *)
(***************************************************************************)
\* secrets.token_urlsafe(32): a token no session has had before.
NewSid(files) == Cardinality(DOMAIN files) + 1

\* Mutant: a request without a known cookie is filed under a session that
\* exists already, when there is one.
GetOrCreateSidShared(sid) ==
    IF sid # NoCookie /\ sid \in DOMAIN _session_files
    THEN [sid |-> sid, needs_set |-> FALSE, files |-> _session_files]
    ELSE IF DOMAIN _session_files # {}
    THEN [sid |-> CHOOSE s \in DOMAIN _session_files : TRUE,
          needs_set |-> TRUE, files |-> _session_files]
    ELSE [sid |-> NewSid(_session_files), needs_set |-> TRUE,
          files |-> _session_files @@ (NewSid(_session_files) :> {})]

\* The sid to file under, whether the cookie must be set, and the map with
\* the new session entered.
_get_or_create_sid(sid) ==
    IF sid # NoCookie /\ sid \in DOMAIN _session_files
    THEN [sid |-> sid, needs_set |-> FALSE, files |-> _session_files]
    ELSE [sid |-> NewSid(_session_files), needs_set |-> TRUE,
          files |-> _session_files @@ (NewSid(_session_files) :> {})]

\* Mutant: any known session passes the ownership test.
SidOwnsAnything(sid, rel_str) ==
    IF ALLOW_EDIT_ALL THEN TRUE
    ELSE sid \in DOMAIN _session_files

_sid_owns(sid, rel_str) ==
    IF ALLOW_EDIT_ALL THEN TRUE
    ELSE sid \in DOMAIN _session_files /\ rel_str \in _session_files[sid]

\* The session created the file and has not deleted it since.
Mine(sid, rel) == \E m \in made : m.sid = sid /\ m.rel = rel

(***************************************************************************)
(* Note lookup for the read handlers.                                      *)
(***************************************************************************)
\* resolve_vault_path: the path itself when it exists; otherwise the first
\* entry of that name rglob yields outside the excluded directories.  The
\* order rglob yields in is the directory order of the filesystem, so any
\* such entry may be the first.
resolve_vault_path(note_path) ==
    LET target == Join(VAULT, note_path)
        found == {p \in RGlob(VAULT, Name(note_path)) :
                     \A i \in 1..Len(RelativeTo(p, VAULT)) :
                         RelativeTo(p, VAULT)[i] \notin EXCLUDED_DIRS}
    IN  IF PathExists(target) THEN {Some(target)}
        ELSE IF found = {} THEN {None}
        ELSE {Some(p) : p \in found}

(***************************************************************************)
(* Request handlers.  c is the client that sent the request and sid the    *)
(* cookie the request carries.  A handler runs from its first line to its  *)
(* response; reply records the kind of request, the response, the file acted *)
(* on, for PUT and DELETE on an existing sandbox-valid file what the       *)
(* server found there, and for a request that created or removed a file    *)
(* the cookie it carried.                                                  *)
(***************************************************************************)
Rep(kind, status) == [NoReply EXCEPT !.kind = kind, !.status = status]

\* A response that leaves the vault and the sessions as they are.
Refuse(r) ==
    /\ reply' = r
    /\ UNCHANGED <<fs, _session_files, tree_cache, made>>

\* What an edit request found: the real path, its relative path, the entry.
Seen(kind, sid, fpath, content) ==
    [Rep(kind, 0) EXCEPT
        !.content = content, !.valid = TRUE, !.path = fpath,
        !.rel = RelativeTo(fpath, VAULT),
        !.mine = Mine(sid, RelativeTo(fpath, VAULT)),
        !.before = fs[fpath]]

\* api_note, GET.  Of the response only the file served is recorded.
api_note_get(c, sid, note_path) ==
    \E fpath \in resolve_vault_path(note_path) :
        IF ~fpath.ok \/ ~is_file(fpath.path)
        THEN Refuse(Rep("GET", 404))
        ELSE IF ~IsRelativeTo(Resolve(fpath.path), VAULT)
        THEN Refuse(Rep("GET", 403))
        ELSE Refuse([Rep("GET", 200) EXCEPT
                        !.act = "read", !.path = fpath.path,
                        !.rel = RelativeTo(fpath.path, VAULT)])

\* api_note_raw
api_note_raw(c, sid, note_path) ==
    \E fpath \in resolve_vault_path(note_path) :
        IF ~fpath.ok \/ ~is_file(fpath.path)
        THEN Refuse(Rep("RAW_NOTE", 404))
        ELSE IF ~IsRelativeTo(Resolve(fpath.path), VAULT)
        THEN Refuse(Rep("RAW_NOTE", 403))
        ELSE IF ~_sid_owns(sid, RelativeTo(fpath.path, VAULT))
        THEN Refuse(Rep("RAW_NOTE", 403))
        ELSE Refuse([Rep("RAW_NOTE", 200) EXCEPT
                        !.act = "read", !.path = fpath.path,
                        !.rel = RelativeTo(fpath.path, VAULT)])

\* raw_file
raw_file(c, sid, file_path) ==
    \E fpath \in resolve_vault_path(file_path) :
        IF ~fpath.ok \/ ~is_file(fpath.path)
        THEN Refuse(Rep("RAW", 404))
        ELSE IF ~IsRelativeTo(Resolve(fpath.path), VAULT)
        THEN Refuse(Rep("RAW", 403))
        ELSE Refuse([Rep("RAW", 200) EXCEPT
                        !.act = "read", !.path = fpath.path,
                        !.rel = RelativeTo(fpath.path, VAULT)])

\* Mutant: a PUT by someone who does not own the file drops the cached
\* fingerprint before it is refused.
PutInvalidatesFirst(c, sid, note_path, content) ==
    LET fpath == _safe_vault_path(note_path)
        rel_str == RelativeTo(fpath.path, VAULT)
        seen == Seen("PUT", sid, fpath.path, content)
    IN  IF ~fpath.ok \/ ~is_file(fpath.path)
        THEN Refuse([Rep("PUT", 404) EXCEPT !.content = content])
        ELSE IF ~_sid_owns(sid, rel_str)
        THEN /\ tree_cache' = Invalidated(tree_cache)
             /\ reply' = [seen EXCEPT !.status = 403]
             /\ UNCHANGED <<fs, _session_files, made>>
        ELSE IF content.type # "str"
        THEN Refuse([seen EXCEPT !.status = 400])
        ELSE /\ fs' = WriteText(fs, fpath.path, content.val)
             /\ tree_cache' = Invalidated(tree_cache)
             /\ reply' = [seen EXCEPT !.status = 200, !.act = "write"]
             /\ UNCHANGED <<_session_files, made>>

\* _api_note_put
_api_note_put(c, sid, note_path, content) ==
    LET fpath == _safe_vault_path(note_path)
        rel_str == RelativeTo(fpath.path, VAULT)
        seen == Seen("PUT", sid, fpath.path, content)
    IN  IF ~fpath.ok \/ ~is_file(fpath.path)
        THEN Refuse([Rep("PUT", 404) EXCEPT !.content = content])
        ELSE IF ~_sid_owns(sid, rel_str)
        THEN Refuse([seen EXCEPT !.status = 403])
        ELSE IF content.type # "str"
        THEN Refuse([seen EXCEPT !.status = 400])
        ELSE /\ fs' = WriteText(fs, fpath.path, content.val)
             /\ tree_cache' = Invalidated(tree_cache)
             /\ reply' = [seen EXCEPT !.status = 200, !.act = "write"]
             /\ UNCHANGED <<_session_files, made>>

\* _api_note_delete
_api_note_delete(c, sid, note_path) ==
    LET fpath == _safe_vault_path(note_path)
        rel_str == RelativeTo(fpath.path, VAULT)
        seen == Seen("DELETE", sid, fpath.path, Text(""))
    IN  IF ~fpath.ok \/ ~is_file(fpath.path)
        THEN Refuse(Rep("DELETE", 404))
        ELSE IF ~_sid_owns(sid, rel_str)
        THEN Refuse([seen EXCEPT !.status = 403])
        ELSE /\ fs' = Unlink(fs, fpath.path)
             /\ _session_files' =
                    IF sid \in DOMAIN _session_files
                    THEN [_session_files EXCEPT ![sid] = @ \ {rel_str}]
                    ELSE _session_files
             /\ tree_cache' = Invalidated(tree_cache)
             /\ made' = {m \in made : ~(m.sid = sid /\ m.rel = rel_str)}
             /\ reply' = [seen EXCEPT !.status = 200, !.act = "remove",
                                      !.sid = sid]

\* The common end of api_files_new and api_files_upload: make the parent
\* directories, write the file, file it under the session, invalidate, and
\* set the cookie when the session is new.
Create(kind, c, sid, fpath, content) ==
    LET rel_str == RelativeTo(fpath, VAULT)
        got == _get_or_create_sid(sid)
    IN  /\ fs' = WriteText(MkdirParents(fs, Parent(fpath)), fpath, content)
        /\ _session_files' = [got.files EXCEPT ![got.sid] = @ \cup {rel_str}]
        /\ tree_cache' = Invalidated(tree_cache)
        /\ made' = made \cup {[client |-> c, sid |-> got.sid, rel |-> rel_str]}
        /\ reply' = [Rep(kind, 200) EXCEPT
                        !.act = "create", !.path = fpath, !.rel = rel_str,
                        !.sid = sid,
                        !.set_cookie = IF got.needs_set THEN got.sid
                                       ELSE NoCookie]

DotMd == <<".", "m", "d">>

\* api_files_new.  raw is the stripped path string as its non-empty
\* "/"-separated parts; the string does not end in "/".
api_files_new(c, sid, raw) ==
    LET last == Chars(Name(raw))
        parts == IF EndsWith(last, DotMd) THEN raw
                 ELSE [raw EXCEPT ![Len(raw)] = NameOf(last \o DotMd)]
        clean_parts == [i \in 1..Len(parts) |-> secure_filename(parts[i])]
        fpath == _safe_vault_path(clean_parts)
    IN  IF ~ALLOW_FILE_CREATION THEN Refuse(Rep("NEW", 403))
        ELSE IF raw = <<>> THEN Refuse(Rep("NEW", 400))
        ELSE IF \E i \in 1..Len(parts) : clean_parts[i] = ""
        THEN Refuse(Rep("NEW", 400))
        ELSE IF ~fpath.ok THEN Refuse(Rep("NEW", 400))
        ELSE IF PathExists(fpath.path) THEN Refuse(Rep("NEW", 409))
        ELSE IF MkdirFails(Parent(fpath.path))
        THEN Refuse(Rep("NEW", 500))
        ELSE Create("NEW", c, sid, fpath.path, "")

ALLOWED_UPLOAD_EXTENSIONS ==
    {DotMd, <<".", "t", "x", "t">>, <<".", "p", "d", "f">>,
     <<".", "p", "n", "g">>, <<".", "j", "p", "g">>,
     <<".", "j", "p", "e", "g">>, <<".", "g", "i", "f">>,
     <<".", "w", "e", "b", "p">>, <<".", "s", "v", "g">>}

\* The renaming loop of api_files_upload: stem_1.ext, stem_2.ext, ... until
\* a free name is found or the sandbox refuses one.
RECURSIVE Renamed(_, _, _, _, _)
Renamed(fpath, stem, ext, has_folder, counter) ==
    IF ~PathExists(fpath) THEN Some(fpath)
    ELSE LET new_name == NameOf(stem \o <<"_">> \o Digits(counter) \o ext)
             dest_rel == IF has_folder
                         THEN Append(RelativeTo(Parent(fpath), VAULT), new_name)
                         ELSE <<new_name>>
             nxt == _safe_vault_path(dest_rel)
         IN  IF ~nxt.ok THEN None
             ELSE Renamed(nxt.path, stem, ext, has_folder, counter + 1)

\* api_files_upload.  A file part is present; filename is its name, folder
\* the non-empty "/"-separated parts of the stripped folder field, and the
\* bytes uploaded are "u".
api_files_upload(c, sid, filename, folder) ==
    LET fname == secure_filename(filename)
        ext == Lower(Suffix(Chars(fname)))
        folder_parts == [i \in 1..Len(folder) |-> secure_filename(folder[i])]
        fpath == _safe_vault_path(folder_parts \o <<fname>>)
        final == Renamed(fpath.path, Stem(Chars(fname)), ext, folder # <<>>, 1)
    IN  IF ~ALLOW_FILE_CREATION THEN Refuse(Rep("UPLOAD", 403))
        ELSE IF filename = "" THEN Refuse(Rep("UPLOAD", 400))
        ELSE IF fname = "" THEN Refuse(Rep("UPLOAD", 400))
        ELSE IF ext \notin ALLOWED_UPLOAD_EXTENSIONS
        THEN Refuse(Rep("UPLOAD", 400))
        ELSE IF \E i \in 1..Len(folder) : folder_parts[i] = ""
        THEN Refuse(Rep("UPLOAD", 400))
        ELSE IF ~fpath.ok THEN Refuse(Rep("UPLOAD", 400))
        ELSE IF ~final.ok THEN Refuse(Rep("UPLOAD", 409))
        ELSE IF MkdirFails(Parent(final.path))
        THEN Refuse(Rep("UPLOAD", 500))
        ELSE Create("UPLOAD", c, sid, final.path, "u")

(***************************************************************************)
(* Specification SpecServer: clients send requests one at a time, each     *)
(* carrying the cookie its client holds, and receive the response before   *)
(* anything else happens.  The vault holds a note nobody created (Y.md), a *)
(* note in a folder, an excluded file, an excluded directory and a link    *)
(* out of the vault.  ALLOW_EDIT_ALL and ALLOW_FILE_CREATION are fixed at  *)
(* start-up, either way.                                                   *)
(***************************************************************************)
MaxCreates == 2

ServerFs0 ==
    ( <<"vault">> :> Dir
   @@ <<"vault", "Y.md">> :> File("y", 1)
   @@ <<"vault", "Notes">> :> Dir
   @@ <<"vault", "Notes", "A.md">> :> File("a", 1)
   @@ <<"vault", "server.py">> :> File("s", 1)
   @@ <<"vault", ".git">> :> Dir
   @@ <<"vault", ".git", "B.md">> :> File("g", 1)
   @@ <<"vault", "out">> :> Link(<<"etc">>)
   @@ <<"etc">> :> Dir
   @@ <<"etc", "A.md">> :> File("e", 1) )

ReadPaths ==
    {<<"X.md">>, <<"A.md">>, <<"server.py">>, <<".git", "B.md">>,
     <<"out", "A.md">>}

EditPaths == {<<"Y.md">>, <<"X.md">>, <<"server.py">>}

Contents == {Text("a"), NotText}

NewPaths ==
    {<<>>, <<"X">>, <<"..", "X.md">>, <<"Templates", "X">>}

UploadNames == {"", "..", "X.md", "server.py"}

UploadFolders == {<<>>, <<".git">>}

\* What no handler touches.
handlerFrame ==
    <<sandboxVars, hashVars, now, th, epoch, wrote_ep, last_call, overlapped,
      observe, derivedVars, configVars>>

InitServer ==
    /\ fs = ServerFs0
    /\ raw_path = <<>> /\ sb_result = None /\ sb_prev = None /\ sb_calls = 0
    /\ hs_taken = FALSE /\ hs_fs = ServerFs0 /\ hs_walk = <<>>
    /\ hs_input = <<>>
    /\ CacheIdle
    /\ observe = "none"
    /\ DerivedIdle
    /\ ALLOW_EDIT_ALL \in BOOLEAN
    /\ ALLOW_FILE_CREATION \in BOOLEAN
    /\ NobodyYet

\* The client receives the response at once: a Set-Cookie replaces the
\* cookie it holds.
Received(c) ==
    /\ cookie' = IF reply'.set_cookie # NoCookie
                 THEN [cookie EXCEPT ![c] = reply'.set_cookie]
                 ELSE cookie
    /\ UNCHANGED <<requests, responses, handlerFrame>>

GetNote(c, p) ==
    api_note_get(c, cookie[c], p) /\ Received(c) /\ UNCHANGED creates

GetNoteRaw(c, p) ==
    api_note_raw(c, cookie[c], p) /\ Received(c) /\ UNCHANGED creates

GetRaw(c, p) ==
    raw_file(c, cookie[c], p) /\ Received(c) /\ UNCHANGED creates

PutNote(c, p, content) ==
    _api_note_put(c, cookie[c], p, content) /\ Received(c)
        /\ UNCHANGED creates

DeleteNote(c, p) ==
    _api_note_delete(c, cookie[c], p) /\ Received(c) /\ UNCHANGED creates

PostNew(c, p) ==
    /\ creates < MaxCreates
    /\ creates' = creates + 1
    /\ api_files_new(c, cookie[c], p)
    /\ Received(c)

PostUpload(c, name, folder) ==
    /\ creates < MaxCreates
    /\ creates' = creates + 1
    /\ api_files_upload(c, cookie[c], name, folder)
    /\ Received(c)

NextServer ==
    \/ \E c \in Clients, p \in ReadPaths : GetNote(c, p)
    \/ \E c \in Clients, p \in ReadPaths : GetNoteRaw(c, p)
    \/ \E c \in Clients, p \in ReadPaths : GetRaw(c, p)
    \/ \E c \in Clients, p \in EditPaths, content \in Contents :
          PutNote(c, p, content)
    \/ \E c \in Clients, p \in EditPaths : DeleteNote(c, p)
    \/ \E c \in Clients, p \in NewPaths : PostNew(c, p)
    \/ \E c \in Clients, name \in UploadNames, folder \in UploadFolders :
          PostUpload(c, name, folder)

SpecServer == InitServer /\ [][NextServer]_vars

\* The latest request was a PUT or DELETE on an existing sandbox-valid file.
EditReplied == reply.kind \in {"PUT", "DELETE"} /\ reply.valid

\* The file that request named is as the request found it.
Untouched == Exists(reply.path) /\ fs[reply.path] = reply.before

\* The request took effect: the content was written, or the file is gone.
TookEffect ==
    IF reply.kind = "PUT"
    THEN Exists(reply.path) /\ fs[reply.path].content = reply.content.val
    ELSE ~Exists(reply.path)

\* C1 as stated: with edit-all disabled, a PUT or DELETE on an existing
\* sandbox-valid file succeeds if and only if the requesting session created
\* the file and has not deleted it, and otherwise returns 403 leaving the
\* file as it was; with edit-all enabled, every such request succeeds.
C1_Original ==
    EditReplied =>
        IF ALLOW_EDIT_ALL THEN reply.status = 200
        ELSE /\ reply.status = 200 <=> reply.mine
             /\ ~reply.mine => (reply.status = 403 /\ Untouched)

\* C1, amended: each session's ownership set holds exactly the files the
\* session created and has not deleted; a DELETE, or a PUT whose content is
\* a string, on an existing sandbox-valid file takes effect with status 200
\* when edit-all is enabled or the file is in the requesting session's
\* ownership set, and otherwise returns 403 leaving the file as it was; a
\* PUT whose content is not a string, from a requester allowed to edit,
\* returns 400 leaving the file as it was.
C1_Amended ==
    /\ \A s \in DOMAIN _session_files :
          _session_files[s] = {m.rel : m \in {n \in made : n.sid = s}}
    /\ EditReplied =>
          LET allowed == ALLOW_EDIT_ALL \/ reply.mine
              wellFormed == reply.kind = "DELETE" \/ reply.content.type = "str"
          IN  /\ (allowed /\ wellFormed) => (reply.status = 200 /\ TookEffect)
              /\ (allowed /\ ~wellFormed) => (reply.status = 400 /\ Untouched)
              /\ ~allowed => (reply.status = 403 /\ Untouched)

\* Witness: with edit-all disabled and two sessions known, the session that
\* created X.md has edited it.
C1_Witness ==
    /\ ~ALLOW_EDIT_ALL
    /\ Cardinality(DOMAIN _session_files) = 2
    /\ reply.kind = "PUT" /\ reply.status = 200 /\ reply.mine
    /\ reply.rel = <<"X.md">>
    /\ fs[<<"vault", "X.md">>].content = "a"

\* C2 as stated: no request returns, modifies or removes a file whose path
\* has an excluded-directory segment or whose name is an excluded-file name.
C2_Original ==
    reply.act # "none" =>
        /\ \A i \in 1..Len(reply.rel) : reply.rel[i] \notin EXCLUDED_DIRS
        /\ Name(reply.path) \notin EXCLUDED_FILES

\* The part of C2 that holds: the handlers that write, create or remove go
\* through _safe_vault_path and never act on an excluded path.
C2_WritePart ==
    reply.act \in {"write", "create", "remove"} =>
        /\ \A i \in 1..Len(reply.rel) : reply.rel[i] \notin EXCLUDED_DIRS
        /\ Name(reply.path) \notin EXCLUDED_FILES

(***************************************************************************)
(* Specification SpecParallel: a client may have two creation requests on  *)
(* the way at once.  A request carries the cookie its client held when it  *)
(* was sent; the worker threads handle the requests in any order, and the  *)
(* responses reach the client in any order, a Set-Cookie replacing the     *)
(* cookie the browser holds.                                               *)
(***************************************************************************)
Slots == {1, 2}

ParallelNewPaths == {<<"X">>, <<"Notes", "X">>}

ParallelUploadNames == {"X.md"}

InitParallel ==
    /\ fs = ServerFs0
    /\ raw_path = <<>> /\ sb_result = None /\ sb_prev = None /\ sb_calls = 0
    /\ hs_taken = FALSE /\ hs_fs = ServerFs0 /\ hs_walk = <<>>
    /\ hs_input = <<>>
    /\ CacheIdle
    /\ observe = "none"
    /\ DerivedIdle
    /\ ALLOW_EDIT_ALL \in BOOLEAN
    /\ ALLOW_FILE_CREATION = TRUE
    /\ NobodyYet

\* The connections of client c that carry a request or await its response.
Busy(c) ==
    {r.slot : r \in {q \in requests : q.client = c}}
        \cup {r.slot : r \in {q \in responses : q.client = c}}

\* fetch(...): the browser attaches the cookie it holds now.
Send(c, kind, path, name) ==
    /\ creates < MaxCreates
    /\ Busy(c) # Slots
    /\ creates' = creates + 1
    /\ requests' = requests \cup
          {[client |-> c,
            slot |-> CHOOSE k \in Slots \ Busy(c) :
                        \A j \in Slots \ Busy(c) : k <= j,
            sid |-> cookie[c], kind |-> kind, path |-> path, name |-> name]}
    /\ UNCHANGED <<fs, _session_files, tree_cache, reply, made, cookie,
                   responses, handlerFrame>>

\* The new-note dialog: POST /api/files/new
SendNew(c, p) ==
    /\ p # <<>>
    /\ Send(c, "NEW", p, "")

\* The upload button: POST /api/files/upload, no folder field
SendUpload(c, name) ==
    /\ name # ""
    /\ Send(c, "UPLOAD", <<>>, name)

\* The response leaves the server with the Set-Cookie the handler put on it.
Answered(r) ==
    /\ requests' = requests \ {r}
    /\ responses' = responses \cup
          {[client |-> r.client, slot |-> r.slot,
            set_cookie |-> reply'.set_cookie]}
    /\ UNCHANGED <<cookie, creates, handlerFrame>>

HandleNew(r) ==
    /\ r.kind = "NEW"
    /\ api_files_new(r.client, r.sid, r.path)
    /\ Answered(r)

HandleUpload(r) ==
    /\ r.kind = "UPLOAD"
    /\ api_files_upload(r.client, r.sid, r.name, r.path)
    /\ Answered(r)

Deliver(r) ==
    /\ responses' = responses \ {r}
    /\ cookie' = IF r.set_cookie # NoCookie
                 THEN [cookie EXCEPT ![r.client] = r.set_cookie]
                 ELSE cookie
    /\ UNCHANGED <<fs, _session_files, tree_cache, reply, made, requests,
                   creates, handlerFrame>>

NextParallel ==
    \/ \E c \in Clients, p \in ParallelNewPaths : SendNew(c, p)
    \/ \E c \in Clients, name \in ParallelUploadNames : SendUpload(c, name)
    \/ \E r \in requests : HandleNew(r)
    \/ \E r \in requests : HandleUpload(r)
    \/ \E r \in responses : Deliver(r)

SpecParallel == InitParallel /\ [][NextParallel]_vars

\* No request of client c is on the way and no response to it either.
Quiet(c) == Busy(c) = {}

\* C10 as stated: once the requests a client issued have all completed, every
\* file the client created is in the ownership set of the session whose
\* cookie the client holds.
C10_Original ==
    \A c \in Clients :
        Quiet(c) =>
            \A m \in made :
                m.client = c =>
                    /\ cookie[c] \in DOMAIN _session_files
                    /\ m.rel \in _session_files[cookie[c]]

\* What does hold: no file is dropped from the ownership map - every file
\* created is in the ownership set of the session it was filed under.
C10_FiledSomewhere ==
    \A m \in made :
        m.sid \in DOMAIN _session_files /\ m.rel \in _session_files[m.sid]

(***************************************************************************)
(* The ownership map, step by step (checked under SpecServer).             *)
(***************************************************************************)
\* The request just answered created a file / removed one.
Created(r) == r.kind \in {"NEW", "UPLOAD"} /\ r.status = 200

Removed(r) == r.kind = "DELETE" /\ r.status = 200

\* C11: every step leaves each session's entry in place; a new entry appears
\* only with a successful files/new or files/upload whose request carried no
\* known cookie, belongs to the session that response establishes, and holds
\* just the file created; an existing set gains a path only by a successful
\* creation request carrying that session's cookie, and loses a path only by
\* a successful DELETE of that file carrying that session's cookie, which
\* always removes it; a request that fails changes no set.
C11_OwnershipSteps ==
    [][LET r == reply'
           old == _session_files
           new == _session_files'
       IN  /\ DOMAIN old \subseteq DOMAIN new
           /\ \A s \in DOMAIN new \ DOMAIN old :
                 /\ Created(r) /\ r.sid \notin DOMAIN old
                 /\ r.set_cookie = s
                 /\ new[s] = {r.rel}
           /\ \A s \in DOMAIN old :
                 /\ \A p \in new[s] \ old[s] :
                       Created(r) /\ r.sid = s /\ r.rel = p
                 /\ \A p \in old[s] \ new[s] :
                       Removed(r) /\ r.sid = s /\ r.rel = p
           /\ (Removed(r) /\ r.sid \in DOMAIN old) => r.rel \notin new[r.sid]
           /\ (Created(r) /\ r.sid \in DOMAIN old) => r.rel \in new[r.sid]
           /\ r.status # 200 => new = old
      ]_vars

\* Witness: with edit-all disabled, a session has deleted a file of its own
\* while another session's set, untouched, still holds a file.
C11_Witness ==
    /\ ~ALLOW_EDIT_ALL
    /\ Removed(reply)
    /\ reply.sid \in DOMAIN _session_files
    /\ reply.rel \notin _session_files[reply.sid]
    /\ \E s \in DOMAIN _session_files \ {reply.sid} : _session_files[s] # {}

(***************************************************************************)
(* Specification SpecWalk: _walk_vault run iteration by iteration, twice   *)
(* over, on every vault put together from a set of parts: nested folders,  *)
(* an excluded directory, an excluded file, a directory that cannot be     *)
(* listed, a symbolic link to an ancestor, a link out of the vault and a   *)
(* file that bears the name of an excluded directory.  os.scandir returns  *)
(* the entries of a directory in any order.                                *)
(***************************************************************************)
MaxRuns == 2

WalkParts ==
    { <<"vault", "0a">> :> File("z", 100),
      <<"vault", "Notes">> :> Dir
          @@ <<"vault", "Notes", "A.md">> :> File("a", 100),
      <<"vault", "Notes">> :> Dir
          @@ <<"vault", "Notes", "B.md">> :> File("b", 150),
      <<"vault", "Notes">> :> Dir
          @@ <<"vault", "Notes", "X">> :> Dir
          @@ <<"vault", "Notes", "X", "Y.md">> :> File("y", 100),
      <<"vault", ".git">> :> Dir
          @@ <<"vault", ".git", "A.md">> :> File("g", 100),
      <<"vault", "Notes">> :> Dir
          @@ <<"vault", "Notes", "X">> :> Dir
          @@ <<"vault", "Notes", "X", "server.py">> :> File("s", 100),
      <<"vault", "Notes">> :> Dir
          @@ <<"vault", "Notes", "X">> :> Dir
          @@ <<"vault", "Notes", "X", "hid">> :> LockedDir
          @@ <<"vault", "Notes", "X", "hid", "A.md">> :> File("h", 100),
      <<"vault", "Notes">> :> Dir
          @@ <<"vault", "Notes", "in">> :> Link(<<"vault">>),
      <<"vault", "out">> :> Link(<<"etc">>),
      <<"vault", "Notes">> :> Dir
          @@ <<"vault", "Notes", "X">> :> Dir
          @@ <<"vault", "Notes", "X", "Templates">> :> File("t", 100) }

RECURSIVE MergeParts(_)
MergeParts(S) ==
    IF S = {}
    THEN ( <<"vault">> :> Dir @@ <<"etc">> :> Dir
             @@ <<"etc", "A.md">> :> File("e", 100) )
    ELSE LET g == CHOOSE x \in S : TRUE
         IN  g @@ MergeParts(S \ {g})

WalkVaults == {MergeParts(S) : S \in SUBSET WalkParts}

\* The orders in which os.scandir may return a set of entries: all of them.
RECURSIVE Listings(_)
Listings(S) ==
    IF S = {} THEN {<<>>}
    ELSE UNION {{<<x>> \o q : q \in Listings(S \ {x})} : x \in S}

\* Mutant: the sort is descending.
InsertDescending(sorted, e) ==
    LET k == Cardinality({i \in 1..Len(sorted) :
                             ~NameLess(Name(sorted[i]), Name(e))})
    IN  SubSeq(sorted, 1, k) \o <<e>> \o SubSeq(sorted, k + 1, Len(sorted))

\* sorted(entries, key=lambda e: e.name): a stable sort, here by insertion -
\* an entry goes after every entry whose name is not greater than its own.
InsertByName(sorted, e) ==
    LET k == Cardinality({i \in 1..Len(sorted) :
                             ~NameLess(Name(e), Name(sorted[i]))})
    IN  SubSeq(sorted, 1, k) \o <<e>> \o SubSeq(sorted, k + 1, Len(sorted))

\* (The sequence built so far is bound once, as a value, at each insertion.)
RECURSIVE SortedFrom(_, _)
SortedFrom(done, todo) ==
    IF todo = <<>> THEN done
    ELSE CHOOSE r \in {SortedFrom(InsertByName(d, Head(todo)), Tail(todo)) :
                          d \in {done}} : TRUE

\* Mutant: the entries are taken in the order os.scandir returned them.
Unsorted(entries) == entries

sorted_by_name(entries) == SortedFrom(<<>>, entries)

InitWalk ==
    /\ fs \in WalkVaults
    /\ raw_path = <<>> /\ sb_result = None /\ sb_prev = None /\ sb_calls = 0
    /\ hs_taken = FALSE /\ hs_fs = fs /\ hs_walk = <<>> /\ hs_input = <<>>
    /\ CacheIdle
    /\ observe = "none"
    /\ wk_stack = <<VAULT>>
    /\ wk_out = <<>>
    /\ wk_done = <<>>
    /\ tr_reply = NoTree
    /\ gr_reply = NoGraph
    /\ site = NoSite
    /\ md_reply = NoMarkdown
    /\ RestIdle
    /\ ServerIdle

walkFrame == <<fs, sandboxVars, hashVars, cacheVars, observe, serverVars>>

\* One iteration of the while loop of _walk_vault (lines 65-80).
WalkStep ==
    /\ wk_stack # <<>>
    /\ \E d \in {wk_stack[Len(wk_stack)]} :
       \E rest \in {SubSeq(wk_stack, 1, Len(wk_stack) - 1)} :
           IF ScandirFails(d)
           THEN wk_stack' = rest /\ UNCHANGED wk_out
           ELSE \E found \in {Scandir(d)} :
                \E entries \in {sorted_by_name(listing) :
                                    listing \in Listings(found)} :
                \E pushed \in {SelectSeq(entries,
                                   LAMBDA e : IsDirNoFollow(e)
                                       /\ Name(e) \notin EXCLUDED_DIRS)} :
                \E files \in {SelectSeq(entries,
                                   LAMBDA e : ~IsDirNoFollow(e)
                                       /\ Name(e) \notin EXCLUDED_FILES)} :
                \E yielded \in {[i \in 1..Len(files) |->
                                     <<RelativeTo(files[i], VAULT),
                                       LStat(files[i]).mtime>>]} :
                  /\ wk_stack' = rest \o pushed
                  /\ wk_out' = wk_out \o yielded
    /\ UNCHANGED <<wk_done, tr_reply, gr_reply, exportVars, walkFrame>>

\* The stack is empty: the generator is exhausted.  The caller has the whole
\* sequence and, until MaxRuns runs are done, walks again.
WalkReturn ==
    /\ wk_stack = <<>>
    /\ Len(wk_done) < MaxRuns
    /\ wk_done' = Append(wk_done, wk_out)
    /\ wk_out' = <<>>
    /\ wk_stack' = IF Len(wk_done) + 1 < MaxRuns THEN <<VAULT>> ELSE <<>>
    /\ UNCHANGED <<tr_reply, gr_reply, exportVars, walkFrame>>

NextWalk == WalkStep \/ WalkReturn

SpecWalk == InitWalk /\ [][NextWalk]_vars

\* The loop runs on whenever it can.
SpecWalkFair == SpecWalk /\ WF_vars(NextWalk)

\* C12: the runs of _walk_vault over an unchanged vault yield the same
\* ordered sequence of (relative path, mtime) pairs, in whatever order
\* os.scandir lists the directories - the sequence of the vault in name
\* order, directory by directory.
C12_SameSequence ==
    \A i \in 1..Len(wk_done) :
        /\ wk_done[i] = wk_done[1]
        /\ wk_done[i] = _walk_vault(VAULT)

\* Witness: two runs have finished over a vault with nested folders, an
\* excluded directory and a directory that cannot be listed, yielding at
\* least three pairs each.
C12_Witness ==
    /\ Len(wk_done) = 2
    /\ Len(wk_done[2]) >= 3
    /\ Exists(<<"vault", "Notes", "X", "Y.md">>)
    /\ Exists(<<"vault", ".git">>)
    /\ Exists(<<"vault", "Notes", "X", "hid">>)

\* The pairs yielded so far, by the finished runs and the one in progress.
AllYielded ==
    {wk_out[k] : k \in 1..Len(wk_out)}
        \cup UNION {{wk_done[i][k] : k \in 1..Len(wk_done[i])} :
                       i \in 1..Len(wk_done)}

\* How often a finished run yielded the relative path rel.
TimesYielded(i, rel) ==
    Cardinality({k \in 1..Len(wk_done[i]) : wk_done[i][k][1] = rel})

\* A regular file under the root that lies in no excluded directory and
\* bears no excluded file name.
OtherRegularFile(p) ==
    /\ fs[p].kind = "file"
    /\ IsPrefix(VAULT, p) /\ p # VAULT
    /\ \A j \in (Len(VAULT) + 1)..(Len(p) - 1) : p[j] \notin EXCLUDED_DIRS
    /\ Name(p) \notin EXCLUDED_FILES

\* C13 as stated: the walk never descends into an excluded directory and
\* never yields an excluded file name; no yielded relative path has a segment
\* equal to an excluded-directory name; every other regular file under the
\* root is yielded exactly once.
C13_Original ==
    /\ \A k \in 1..Len(wk_stack) : Name(wk_stack[k]) \notin EXCLUDED_DIRS
    /\ \A y \in AllYielded :
          /\ Name(y[1]) \notin EXCLUDED_FILES
          /\ \A j \in 1..Len(y[1]) : y[1][j] \notin EXCLUDED_DIRS
    /\ \A i \in 1..Len(wk_done) :
          \A p \in DOMAIN fs :
              OtherRegularFile(p) =>
                  TimesYielded(i, RelativeTo(p, VAULT)) = 1

\* The part of C13 that holds: no excluded directory is descended into, no
\* excluded file name is yielded, no yielded path lies in an excluded
\* directory, and no path is yielded twice.
C13_Pruning ==
    /\ \A k \in 1..Len(wk_stack) : Name(wk_stack[k]) \notin EXCLUDED_DIRS
    /\ \A y \in AllYielded :
          /\ Name(y[1]) \notin EXCLUDED_FILES
          /\ \A j \in 1..(Len(y[1]) - 1) : y[1][j] \notin EXCLUDED_DIRS
    /\ \A i \in 1..Len(wk_done) :
          \A k \in 1..Len(wk_done[i]) :
              TimesYielded(i, wk_done[i][k][1]) = 1

\* No symbolic link is on the stack, and no yielded path lies below one.
NothingThroughLinks ==
    /\ \A k \in 1..Len(wk_stack) : wk_stack[k] = Resolve(wk_stack[k])
    /\ \A y \in AllYielded :
          \A j \in 1..(Len(y[1]) - 1) :
              ~IsLink(VAULT \o SubSeq(y[1], 1, j))

\* C14: _walk_vault terminates - a run that has directories left on its
\* stack comes to have none - and symbolic links to directories are never
\* pushed, so that no path below one is yielded.
C14_Terminates ==
    /\ []NothingThroughLinks
    /\ (wk_stack # <<>>) ~> (wk_stack = <<>>)

\* Witness: the runs have finished over a vault that holds a symbolic link
\* to an ancestor directory and one out of the vault, the links themselves
\* having been yielded as entries.
C14_Witness ==
    /\ Len(wk_done) = MaxRuns /\ wk_stack = <<>>
    /\ IsLink(<<"vault", "Notes", "in">>)
    /\ IsLink(<<"vault", "out">>)
    /\ TimesYielded(1, <<"Notes", "in">>) = 1
    /\ TimesYielded(1, <<"out">>) = 1

(***************************************************************************)
(* File tree: build_tree (server.py:137-163) and /api/tree (255-260).      *)
(***************************************************************************)
\* Path.is_dir(): symbolic links are followed; pathlib answers False when
\* stat() fails with ELOOP.
is_dir(p) == ~TooManyLinks(p) /\ StatKind(p) = "dir"

\* current.iterdir() raising PermissionError: the directory may not be
\* listed.
IterdirDenied(d) == fs[Resolve(d)].mode = "-"

\* Mutant: the sort key is the name alone, as it is spelt.
NameKeyLess(a, b) == NameLess(Name(a), Name(b))

\* key=lambda e: (not e.is_dir(), e.name.lower()), compared as Python
\* compares tuples: False before True, then the lowered names.
TreeKeyLess(a, b) ==
    \E da \in {is_dir(a)}, db \in {is_dir(b)} :
        IF da # db THEN da
        ELSE \E la \in {Lower(Chars(Name(a)))}, lb \in {Lower(Chars(Name(b)))} :
                 SeqLess(la, lb)

\* sorted(...) is stable: an entry goes after every entry whose key is not
\* greater than its own.
InsertByKey(sorted, e) ==
    LET k == Cardinality({i \in 1..Len(sorted) : ~TreeKeyLess(e, sorted[i])})
    IN  SubSeq(sorted, 1, k) \o <<e>> \o SubSeq(sorted, k + 1, Len(sorted))

RECURSIVE SortedByKeyFrom(_, _)
SortedByKeyFrom(done, todo) ==
    IF todo = <<>> THEN done
    ELSE CHOOSE r \in {SortedByKeyFrom(InsertByKey(d, Head(todo)), Tail(todo)) :
                          d \in {done}} : TRUE

sorted_for_tree(entries) == SortedByKeyFrom(<<>>, entries)

\* build_tree(root, rel, owned): the lists of nodes it may return, one for
\* each order in which iterdir may list the directories (the order shows
\* only between entries whose keys are equal).  A relative path stands for
\* its string, as in the ownership sets.
RECURSIVE build_tree(_, _, _)
RECURSIVE TreeItems(_, _, _, _)
TreeItems(root, rel, owned, entries) ==
    IF entries = <<>> THEN {<<>>}
    ELSE LET entry == Head(entries)
             name == Name(entry)
             relative == Append(rel, name)
             rest == TreeItems(root, rel, owned, Tail(entries))
         IN  IF name \in EXCLUDED_DIRS THEN rest
             ELSE IF is_file(entry) /\ name \in EXCLUDED_FILES THEN rest
             ELSE IF is_dir(entry)
             THEN {<<[name |-> name, path |-> relative, type |-> "folder",
                      children |-> children]>> \o r :
                      children \in build_tree(root, relative, owned),
                      r \in rest}
             ELSE {<<[name |-> name, path |-> relative, type |-> "file",
                      editable |-> ALLOW_EDIT_ALL \/ relative \in owned]>>
                      \o r : r \in rest}

build_tree(root, rel, owned) ==
    LET current == root \o rel
    IN  IF IterdirDenied(current) THEN {<<>>}
        ELSE UNION {TreeItems(root, rel, owned, entries) :
                       entries \in {sorted_for_tree(listing) :
                                       listing \in Listings(Scandir(current))}}

\* Mutant: every session is shown the files of all sessions as its own.
OwnedByAnyone(sid) == UNION {_session_files[s] : s \in DOMAIN _session_files}

\* _session_files.get(sid, set())
OwnedBy(sid) ==
    IF sid \in DOMAIN _session_files THEN _session_files[sid] ELSE {}

\* api_tree: the tree built for the session the cookie names.
api_tree(sid) ==
    /\ \E tree \in build_tree(VAULT, <<>>, OwnedBy(sid)) :
          tr_reply' = [called |-> TRUE, sid |-> sid, tree |-> tree]
    /\ UNCHANGED <<fs, _session_files, tree_cache, made, reply>>

(***************************************************************************)
(* Specification SpecTree: build_tree applied to every vault put together  *)
(* from a set of parts - names that differ in case only, folders named     *)
(* after files, an excluded directory, excluded file names borne by a file *)
(* and by a dangling symbolic link, a file named like an excluded          *)
(* directory, a folder that cannot be listed and a link to a directory.    *)
(* No link leads to one of its own ancestors: on such a vault build_tree   *)
(* recurses until the path is too long for the system.                     *)
(***************************************************************************)
TreeParts ==
    { <<"vault", "Notes">> :> Dir
          @@ <<"vault", "Notes", "A.md">> :> File("a", 100),
      <<"vault", "Notes">> :> Dir
          @@ <<"vault", "Notes", "a.md">> :> File("b", 100),
      <<"vault", "Notes">> :> Dir
          @@ <<"vault", "Notes", "hid">> :> LockedDir
          @@ <<"vault", "Notes", "hid", "A.md">> :> File("h", 100),
      <<"vault", "Notes">> :> Dir
          @@ <<"vault", "Notes", "server.py">> :> Link(<<"gone">>),
      <<"vault", "X">> :> Dir
          @@ <<"vault", "X", "B.md">> :> File("c", 100)
          @@ <<"vault", "X", "a.md">> :> File("d", 100),
      <<"vault", "X">> :> Dir
          @@ <<"vault", "X", "server.py">> :> File("s", 100)
          @@ <<"vault", "X", "Templates">> :> File("t", 100),
      <<"vault", "B.md">> :> File("e", 100),
      <<"vault", ".git">> :> Dir
          @@ <<"vault", ".git", "A.md">> :> File("g", 100)
          @@ <<"vault", "out">> :> Link(<<"etc">>) }

TreeVaults == {MergeParts(S) : S \in SUBSET TreeParts}

InitTree ==
    /\ fs \in TreeVaults
    /\ raw_path = <<>> /\ sb_result = None /\ sb_prev = None /\ sb_calls = 0
    /\ hs_taken = FALSE /\ hs_fs = fs /\ hs_walk = <<>> /\ hs_input = <<>>
    /\ CacheIdle
    /\ observe = "none"
    /\ DerivedIdle
    /\ ServerIdle

\* What the tree endpoint leaves alone, besides the vault and the sessions.
treeFrame ==
    <<sandboxVars, hashVars, now, th, epoch, wrote_ep, last_call, overlapped,
      observe, configVars, walkVars, gr_reply, exportVars>>

\* A request for the tree that carries no cookie.
TreeCall ==
    /\ api_tree(NoCookie)
    /\ UNCHANGED <<creates, netVars, treeFrame>>

NextTree == TreeCall

SpecTree == InitTree /\ [][NextTree]_vars

\* The lists of nodes in a tree: the top level and every children list.
RECURSIVE Levels(_)
Levels(tree) ==
    {tree} \cup UNION {IF tree[i].type = "folder"
                          THEN Levels(tree[i].children) ELSE {} :
                          i \in 1..Len(tree)}

LowerName(node) == Lower(Chars(node.name))

\* Folders before files, and each kind in ascending order of lowered name.
Ordered(level) ==
    \A i, j \in 1..Len(level) :
        i < j =>
            /\ ~(level[i].type = "file" /\ level[j].type = "folder")
            /\ level[i].type = level[j].type =>
                   ~SeqLess(LowerName(level[j]), LowerName(level[i]))

\* C15 as stated: at every level of the tree build_tree returns, the
\* folder nodes precede the file nodes, folders and files are each in
\* ascending case-insensitive order of name, no node bears the name of an
\* excluded directory and no file node the name of an excluded file.
C15_Original ==
    tr_reply.called =>
        \A level \in Levels(tr_reply.tree) :
            /\ Ordered(level)
            /\ \A i \in 1..Len(level) :
                  /\ level[i].name \notin EXCLUDED_DIRS
                  /\ level[i].type = "file" =>
                         level[i].name \notin EXCLUDED_FILES

\* The part of C15 that holds: the order, the excluded-directory names, and
\* the excluded-file names for nodes that stand for regular files.
C15_OrderAndPruning ==
    tr_reply.called =>
        \A level \in Levels(tr_reply.tree) :
            /\ Ordered(level)
            /\ \A i \in 1..Len(level) :
                  /\ level[i].name \notin EXCLUDED_DIRS
                  /\ ( /\ level[i].type = "file"
                       /\ is_file(VAULT \o level[i].path) ) =>
                         level[i].name \notin EXCLUDED_FILES

\* A tree with a folder level and a file level where the order shows: the
\* folders Notes and X before the file B.md, and a.md before B.md in X.
C15_Witness ==
    /\ tr_reply.called
    /\ Len(tr_reply.tree) >= 3
    /\ tr_reply.tree[1].name = "Notes"
    /\ tr_reply.tree[2].name = "X"
    /\ Len(tr_reply.tree[2].children) = 2
    /\ tr_reply.tree[2].children[1].name = "a.md"
    /\ \E i \in 1..Len(tr_reply.tree) : tr_reply.tree[i].name = "B.md"

(***************************************************************************)
(* Specification SpecTreeApi: two clients create and delete notes and ask  *)
(* for the tree, with the cookie they hold, with none, or with one the     *)
(* server never issued; edit-all is on or off.                             *)
(***************************************************************************)
TreeApiFs0 ==
    ( <<"vault">> :> Dir
   @@ <<"vault", "Y.md">> :> File("y", 1)
   @@ <<"vault", "Notes">> :> Dir
   @@ <<"vault", "Notes", "A.md">> :> File("a", 1)
   @@ <<"vault", "out">> :> Link(<<"etc">>)
   @@ <<"etc">> :> Dir
   @@ <<"etc", "A.md">> :> File("e", 1) )

TreeNewPaths == {<<"X">>, <<"Notes", "X">>}

TreeEditPaths == {<<"X.md">>, <<"Notes", "X.md">>}

\* A session id the server never issued.
ForgedSid == 99

InitTreeApi ==
    /\ fs = TreeApiFs0
    /\ raw_path = <<>> /\ sb_result = None /\ sb_prev = None /\ sb_calls = 0
    /\ hs_taken = FALSE /\ hs_fs = TreeApiFs0 /\ hs_walk = <<>>
    /\ hs_input = <<>>
    /\ CacheIdle
    /\ observe = "none"
    /\ DerivedIdle
    /\ ALLOW_EDIT_ALL \in BOOLEAN
    /\ ALLOW_FILE_CREATION = TRUE
    /\ NobodyYet

\* GET /api/tree carrying the cookie sent.
GetTree(sent) ==
    /\ api_tree(sent)
    /\ UNCHANGED <<creates, netVars, treeFrame>>

NextTreeApi ==
    \/ \E c \in Clients, p \in TreeNewPaths :
          PostNew(c, p) /\ UNCHANGED tr_reply
    \/ \E c \in Clients, p \in TreeEditPaths :
          DeleteNote(c, p) /\ UNCHANGED tr_reply
    \/ \E c \in Clients : GetTree(cookie[c])
    \/ GetTree(NoCookie)
    \/ GetTree(ForgedSid)

SpecTreeApi == InitTreeApi /\ [][NextTreeApi]_vars

\* The file nodes of a tree, at every level.
RECURSIVE FileNodes(_)
FileNodes(tree) ==
    UNION {IF tree[i].type = "folder" THEN FileNodes(tree[i].children)
           ELSE {tree[i]} : i \in 1..Len(tree)}

\* C16: every file node of a tree response is editable exactly when
\* edit-all is enabled or its relative path is in the ownership set, at the
\* time of the request, of the session the request's cookie names; a
\* request with no cookie or an unknown session id gets no editable node
\* when edit-all is disabled.
C16_Editable ==
    [][ tr_reply' # tr_reply =>
          /\ \A n \in FileNodes(tr_reply'.tree) :
                n.editable <=>
                    \/ ALLOW_EDIT_ALL
                    \/ /\ tr_reply'.sid \in DOMAIN _session_files
                       /\ n.path \in _session_files[tr_reply'.sid]
          /\ ( /\ ~ALLOW_EDIT_ALL
               /\ tr_reply'.sid \notin DOMAIN _session_files ) =>
                 \A n \in FileNodes(tr_reply'.tree) : ~n.editable ]_vars

\* Witness: with edit-all disabled, a session that owns X.md, asking for a
\* tree that also shows a note created by another session, got X.md
\* editable and the other note not.
C16_Witness ==
    /\ ~ALLOW_EDIT_ALL
    /\ tr_reply.called
    /\ tr_reply.sid \in DOMAIN _session_files
    /\ <<"X.md">> \in _session_files[tr_reply.sid]
    /\ \E s \in DOMAIN _session_files :
          s # tr_reply.sid /\ <<"Notes", "X.md">> \in _session_files[s]
    /\ \E n, m \in FileNodes(tr_reply.tree) :
          /\ n.path = <<"X.md">> /\ n.editable
          /\ m.path = <<"Notes", "X.md">> /\ ~m.editable

(***************************************************************************)
(* Graph: api_graph (server.py:457-543) and generate_graph                 *)
(* (build_static.py:98-175).  A relative path or a wikilink target stands  *)
(* for its string: the sequence of its parts as written.                   *)
(***************************************************************************)
\* VAULT.rglob("*"): every entry below root reached through directories.
RGlobAll(root) ==
    {p \in DOMAIN fs :
        /\ IsPrefix(root, p) /\ Len(p) > Len(root)
        /\ \A k \in (Len(root) + 1)..(Len(p) - 1) :
              /\ fs[SubSeq(p, 1, k)].kind = "dir"
              /\ fs[SubSeq(p, 1, k)].mode # "-"}

\* Path < Path: part by part.
RECURSIVE PartsLess(_, _)
PartsLess(p, q) ==
    IF q = <<>> THEN FALSE
    ELSE IF p = <<>> THEN TRUE
    ELSE IF Head(p) # Head(q) THEN NameLess(Head(p), Head(q))
    ELSE PartsLess(Tail(p), Tail(q))

\* sorted(VAULT.rglob("*")): the paths are distinct, so their order is
\* total and the result is the same whatever order they are inserted in.
RECURSIVE InsertPath(_, _)
InsertPath(sorted, p) ==
    IF sorted = <<>> THEN <<p>>
    ELSE IF PartsLess(p, Head(sorted)) THEN <<p>> \o sorted
    ELSE <<Head(sorted)>> \o InsertPath(Tail(sorted), p)

RECURSIVE SortPaths(_)
SortPaths(S) ==
    IF S = {} THEN <<>>
    ELSE LET m == CHOOSE x \in S : TRUE
         IN  InsertPath(SortPaths(S \ {m}), m)

\* any(part in EXCLUDED_DIRS for part in rel.parts)
HasExcludedPart(rel) == \E i \in 1..Len(rel) : rel[i] \in EXCLUDED_DIRS

\* The tests of the first loop on a path the scan yields.
Included(p) ==
    /\ is_file(p)
    /\ ~HasExcludedPart(RelativeTo(p, VAULT))
    /\ Name(p) \notin EXCLUDED_FILES

RelativeAll(paths) == [i \in 1..Len(paths) |-> RelativeTo(paths[i], VAULT)]

\* The files api_graph builds its nodes from, in the order of the loop.
GraphFiles == RelativeAll(SelectSeq(SortPaths(RGlobAll(VAULT)), Included))

\* str.startswith
StartsWith(cs, prefix) ==
    Len(prefix) <= Len(cs) /\ SubSeq(cs, 1, Len(prefix)) = prefix

\* Mutant: the static build lists its files last first.
CollectFilesDescending ==
    LET files == RelativeAll(SelectSeq(SortPaths(RGlobAll(VAULT)),
                    LAMBDA p : /\ Included(p)
                               /\ ~StartsWith(RelStr(RelativeTo(p, VAULT)),
                                              <<"_", "s", "i", "t", "e">>)
                               /\ Name(p) # "build_static.py"))
    IN  [i \in 1..Len(files) |-> files[Len(files) + 1 - i]]

\* collect_files() of the static build.
collect_files ==
    RelativeAll(SelectSeq(SortPaths(RGlobAll(VAULT)),
        LAMBDA p : /\ Included(p)
                   /\ ~StartsWith(RelStr(RelativeTo(p, VAULT)),
                                  <<"_", "s", "i", "t", "e">>)
                   /\ Name(p) # "build_static.py"))

\* p.suffix.lower() and the group it selects.
Group(name) ==
    LET ext == Lower(Suffix(Chars(name)))
    IN  IF ext = DotMd THEN "note"
        ELSE IF ext = <<".", "p", "d", "f">> THEN "pdf"
        ELSE IF ext \in {<<".", "p", "n", "g">>, <<".", "j", "p", "g">>,
                         <<".", "j", "p", "e", "g">>, <<".", "g", "i", "f">>,
                         <<".", "s", "v", "g">>, <<".", "w", "e", "b", "p">>}
        THEN "image"
        ELSE "other"

FileNode(rel) ==
    [id |-> rel,
     name |-> IF Group(Name(rel)) = "note" THEN Stem(Chars(Name(rel)))
              ELSE Chars(Name(rel)),
     path |-> rel, group |-> Group(Name(rel))]

FolderNode(parent) ==
    [id |-> parent, name |-> Chars(Name(parent)), path |-> parent,
     group |-> "folder"]

\* nodes[key] = node on a dict that keeps insertion order.
Put(nodes, node) ==
    IF \E i \in 1..Len(nodes) : nodes[i].id = node.id
    THEN [i \in 1..Len(nodes) |->
             IF nodes[i].id = node.id THEN node ELSE nodes[i]]
    ELSE Append(nodes, node)

\* Mutant: folder edges are made, folder nodes are not.
RECURSIVE ClimbNoNodes(_, _, _)
ClimbNoNodes(acc, parent, child_path) ==
    IF parent = <<>> THEN acc
    ELSE ClimbNoNodes(
             [acc EXCEPT !.edges = Append(@, [source |-> parent,
                                              target |-> child_path,
                                              kind |-> "folder"])],
             Parent(parent), parent)

\* while str(parent) != ".": the ancestors of a file, nearest first.
RECURSIVE Climb(_, _, _)
Climb(acc, parent, child_path) ==
    IF parent = <<>> THEN acc
    ELSE Climb(
             [nodes |-> IF parent \notin acc.folders_seen
                        THEN Put(acc.nodes, FolderNode(parent))
                        ELSE acc.nodes,
              folders_seen |-> acc.folders_seen \cup {parent},
              edges |-> Append(acc.edges, [source |-> parent,
                                           target |-> child_path,
                                           kind |-> "folder"])],
             Parent(parent), parent)

\* The first loop: a node for each file, nodes and edges for its ancestors.
RECURSIVE FileLoop(_, _)
FileLoop(acc, files) ==
    IF files = <<>> THEN acc
    ELSE FileLoop(Climb([acc EXCEPT !.nodes = Put(@, FileNode(Head(files)))],
                        Parent(Head(files)), Head(files)),
                  Tail(files))

\* fpath.read_text(errors="replace"): OSError unless a readable file.
read_text(p) ==
    LET r == LookupFrom(<<>>, p)
    IN  IF r.ok /\ r.path # <<>> /\ fs[r.path].kind = "file"
           /\ fs[r.path].mode # "-"
        THEN [ok |-> TRUE, text |-> fs[r.path].content]
        ELSE [ok |-> FALSE, text |-> ""]

\* The texts of the notes, cut into words; "[[", "|" and "]]" are words of
\* their own, and between "[[" and "|" or "]]" the words are the parts of a
\* path.
TextTokens(text) ==
    CASE text = "See [[B]] and [[missing]]." ->
            <<"See", "[[", "B", "]]", "and", "[[", "missing", "]]", ".">>
      [] text = "![[X.PNG]] [[B]]" ->
            <<"!", "[[", "X.PNG", "]]", "[[", "B", "]]">>
      [] text = "[[Y]] [[A]] [[A|again]] [[A]]" ->
            <<"[[", "Y", "]]", "[[", "A", "]]", "[[", "A", "|", "again", "]]",
              "[[", "A", "]]">>
      [] text = "[[Notes/A]] [[Notes]] [[out/A]] [[" ->
            <<"[[", "Notes", "A", "]]", "[[", "Notes", "]]",
              "[[", "out", "A", "]]", "[[">>
      [] OTHER -> <<text>>

\* The index of the first word of words that is in S, or 0.
FirstIndex(words, S) ==
    LET hits == {i \in 1..Len(words) : words[i] \in S}
    IN  IF hits = {} THEN 0 ELSE CHOOSE i \in hits : \A j \in hits : i <= j

\* wikilink_re.finditer(text), group 1 of each match:
\* \[\[([^\]|]+?)(?:\|[^\]]*?)?\]\]
RECURSIVE wikilinks(_)
wikilinks(words) ==
    IF words = <<>> THEN <<>>
    ELSE IF Head(words) # "[[" THEN wikilinks(Tail(words))
    ELSE LET body == Tail(words)
             stop == FirstIndex(body, {"|", "]]"})
             after == SubSeq(body, stop, Len(body))
             close == FirstIndex(after, {"]]"})
         IN  IF stop <= 1 \/ close = 0 THEN wikilinks(body)
             ELSE <<SubSeq(body, 1, stop - 1)>>
                      \o wikilinks(SubSeq(after, close + 1, Len(after)))

\* target + ".md"
AppendMd(target) ==
    [target EXCEPT ![Len(target)] = NameOf(Chars(@) \o DotMd)]

\* tname: Path(target).name, with ".md" appended when it has no suffix.
TName(target) ==
    IF Suffix(Chars(Name(target))) = <<>>
    THEN NameOf(Chars(Name(target)) \o DotMd)
    ELSE Name(target)

\* The entries VAULT.rglob(tname) yields that the loop does not pass over.
Candidates(tname) ==
    {p \in RGlob(VAULT, tname) : ~HasExcludedPart(RelativeTo(p, VAULT))}

\* What the search by name may find first.  rglob yields the matches of a
\* directory before those of its subdirectories; between directories of
\* which neither contains the other the order is that of the filesystem.
FirstFound(tname) ==
    IF Candidates(tname) = {} THEN {None}
    ELSE {Some(RelativeTo(p, VAULT)) :
             p \in {c \in Candidates(tname) :
                      ~\E q \in Candidates(tname) :
                           /\ Len(Parent(q)) < Len(Parent(c))
                           /\ IsPrefix(Parent(q), Parent(c))}}

\* Mutant: the search by name comes first.
ResolveByNameFirst(target, pick) ==
    IF pick[TName(target)].ok THEN pick[TName(target)]
    ELSE IF PathExists(Join(VAULT, target)) THEN Some(target)
    ELSE IF PathExists(Join(VAULT, AppendMd(target)))
    THEN Some(AppendMd(target))
    ELSE None

\* Lines 508-521: target_path for a wikilink target, or None.  pick gives,
\* for each name, the entry the search by name finds first.
resolve_target(target, pick) ==
    IF PathExists(Join(VAULT, target)) THEN Some(target)
    ELSE IF PathExists(Join(VAULT, AppendMd(target)))
    THEN Some(AppendMd(target))
    ELSE pick[TName(target)]

\* Mutant: a link edge is made whenever the target was found, a node or not.
EmitsUnlisted(target_path, nodes, rel_str) ==
    /\ target_path.ok /\ target_path.path # <<>>
    /\ target_path.path # rel_str

\* Mutant: a link edge is made whenever the target is a node.
EmitsSelfToo(target_path, nodes, rel_str) ==
    /\ target_path.ok /\ target_path.path # <<>>
    /\ \E i \in 1..Len(nodes) : nodes[i].id = target_path.path

\* if target_path and target_path in nodes and target_path != rel_str
Emits(target_path, nodes, rel_str) ==
    /\ target_path.ok /\ target_path.path # <<>>
    /\ \E i \in 1..Len(nodes) : nodes[i].id = target_path.path
    /\ target_path.path # rel_str

\* for m in wikilink_re.finditer(text)
RECURSIVE TargetLoop(_, _, _, _, _)
TargetLoop(acc, nodes, rel_str, targets, pick) ==
    IF targets = <<>> THEN acc
    ELSE LET target == Head(targets)
             target_path == resolve_target(target, pick)
         IN  TargetLoop(
                 [edges |-> IF Emits(target_path, nodes, rel_str)
                            THEN Append(acc.edges,
                                        [source |-> rel_str,
                                         target |-> target_path.path,
                                         kind |-> "link"])
                            ELSE acc.edges,
                  resolved |-> Append(acc.resolved,
                                      [source |-> rel_str, target |-> target,
                                       target_path |-> target_path])],
                 nodes, rel_str, Tail(targets), pick)

\* Mutant: the loop ends at the first note that cannot be read.
RECURSIVE NoteLoopStops(_, _, _, _)
NoteLoopStops(acc, nodes, todo, pick) ==
    IF todo = <<>> THEN acc
    ELSE LET node == Head(todo)
             got == read_text(VAULT \o node.id)
         IN  IF node.group # "note"
             THEN NoteLoopStops(acc, nodes, Tail(todo), pick)
             ELSE IF ~got.ok THEN acc
             ELSE NoteLoopStops(TargetLoop(acc, nodes, node.id,
                                           wikilinks(TextTokens(got.text)),
                                           pick),
                                nodes, Tail(todo), pick)

\* The second loop: the wikilinks of every note that can be read.
RECURSIVE NoteLoop(_, _, _, _)
NoteLoop(acc, nodes, todo, pick) ==
    IF todo = <<>> THEN acc
    ELSE LET node == Head(todo)
             got == read_text(VAULT \o node.id)
         IN  IF node.group # "note" \/ ~got.ok
             THEN NoteLoop(acc, nodes, Tail(todo), pick)
             ELSE NoteLoop(TargetLoop(acc, nodes, node.id,
                                      wikilinks(TextTokens(got.text)), pick),
                           nodes, Tail(todo), pick)

\* Mutant: every edge is kept.
KeepAll(unique_edges, edges) == unique_edges \o edges

\* Lines 527-534: an edge is kept unless its (source, target) was seen.
RECURSIVE Unique(_, _)
Unique(unique_edges, edges) ==
    IF edges = <<>> THEN unique_edges
    ELSE IF \E i \in 1..Len(unique_edges) :
                /\ unique_edges[i].source = Head(edges).source
                /\ unique_edges[i].target = Head(edges).target
    THEN Unique(unique_edges, Tail(edges))
    ELSE Unique(Append(unique_edges, Head(edges)), Tail(edges))

\* Mutant: only the edges leaving a node are counted.
SourceCount(edges, id) ==
    Cardinality({i \in 1..Len(edges) : edges[i].source = id})

\* link_counts.get(n["id"], 0)
LinkCount(edges, id) ==
    Cardinality({i \in 1..Len(edges) : edges[i].source = id})
        + Cardinality({i \in 1..Len(edges) : edges[i].target = id})

\* The graph built from a list of files.
BuildGraph(files, pick) ==
    LET first == FileLoop([nodes |-> <<>>, folders_seen |-> {},
                           edges |-> <<>>], files)
        second == NoteLoop([edges |-> first.edges, resolved |-> <<>>],
                           first.nodes, first.nodes, pick)
        edges == Unique(<<>>, second.edges)
    IN  [called |-> TRUE,
         nodes |-> [i \in 1..Len(first.nodes) |->
                       [links |-> LinkCount(edges, first.nodes[i].id)]
                           @@ first.nodes[i]],
         edges |-> edges,
         produced |-> second.edges,
         resolved |-> second.resolved]

(***************************************************************************)
(* Specification SpecGraph: the graph built, by the server and by the      *)
(* static build, on every vault put together from a set of parts: the      *)
(* notes of the specification's scenario, a note of the same name at the   *)
(* root and one in another folder, a note that links to itself and to one  *)
(* target three times, a nested folder, a folder holding excluded entries  *)
(* only, an excluded directory, a link to a directory outside and a folder *)
(* that bears the name of a note, and a note that cannot be read.          *)
(***************************************************************************)
GraphParts ==
    { <<"vault", "Notes">> :> Dir
          @@ <<"vault", "Notes", "A.md">>
                 :> File("See [[B]] and [[missing]].", 100),
      <<"vault", "Notes">> :> Dir
          @@ <<"vault", "Notes", "B.md">> :> File("b", 100),
      <<"vault", "B.md">>
          :> File("[[Notes/A]] [[Notes]] [[out/A]] [[", 100),
      <<"vault", "X">> :> Dir
          @@ <<"vault", "X", "B.md">> :> File("c", 100),
      <<"vault", "hid">> :> Dir
          @@ <<"vault", "hid", "server.py">> :> File("s", 100)
          @@ <<"vault", ".git">> :> Dir
          @@ <<"vault", ".git", "B.md">> :> File("g", 100)
          @@ <<"vault", ".git", "A.md">> :> File("h", 100),
      <<"vault", "out">> :> Link(<<"etc">>)
          @@ <<"vault", "0a">> :> File("r", 100),
      <<"vault", "A.md">> :> LockedFile("See [[B]] and [[missing]].", 100),
      <<"vault", "X">> :> Dir
          @@ <<"vault", "X", "A.md">> :> Dir
          @@ <<"vault", "X", "A.md", "0a">> :> File("d", 100),
      <<"vault", "Notes">> :> Dir
          @@ <<"vault", "Notes", "X">> :> Dir
          @@ <<"vault", "Notes", "X", "0a">> :> File("z", 100)
          @@ <<"vault", "Notes", "X", "Y.md">>
                 :> File("[[Y]] [[A]] [[A|again]] [[A]]", 100) }

GraphVaults == {MergeParts(S) : S \in SUBSET GraphParts}

\* The names the search by name may be asked for.
AskedNames ==
    UNION {{TName(wikilinks(TextTokens(fs[p].content))[i]) :
               i \in 1..Len(wikilinks(TextTokens(fs[p].content)))} :
             p \in {q \in DOMAIN fs : fs[q].kind = "file"}}

\* One order of the filesystem: for each name, what rglob finds first.
RECURSIVE PicksOver(_)
PicksOver(names) ==
    IF names = {} THEN {<<>>}
    ELSE LET n == CHOOSE x \in names : TRUE
         IN  {(n :> found) @@ pick :
                 found \in FirstFound(n), pick \in PicksOver(names \ {n})}

InitGraph ==
    /\ fs \in GraphVaults
    /\ raw_path = <<>> /\ sb_result = None /\ sb_prev = None /\ sb_calls = 0
    /\ hs_taken = FALSE /\ hs_fs = fs /\ hs_walk = <<>> /\ hs_input = <<>>
    /\ CacheIdle
    /\ observe = "none"
    /\ DerivedIdle
    /\ ServerIdle

graphFrame == <<fs, sandboxVars, hashVars, cacheVars, observe, walkVars,
                tr_reply, exportVars, serverVars>>

\* GET /api/graph
ApiGraph ==
    /\ \E pick \in PicksOver(AskedNames) :
          gr_reply' = BuildGraph(GraphFiles, pick)
    /\ UNCHANGED graphFrame

\* generate_graph(collect_files()) of the static build.
StaticGraph ==
    /\ \E pick \in PicksOver(AskedNames) :
          gr_reply' = BuildGraph(collect_files, pick)
    /\ UNCHANGED graphFrame

NextGraph == ApiGraph \/ StaticGraph

SpecGraph == InitGraph /\ [][NextGraph]_vars

\* The ids of the nodes of the latest graph, and those of its folder nodes.
NodeIds == {gr_reply.nodes[i].id : i \in 1..Len(gr_reply.nodes)}

FolderIds ==
    {gr_reply.nodes[i].id :
        i \in {j \in 1..Len(gr_reply.nodes) :
                 gr_reply.nodes[j].group = "folder"}}

\* The included file paths: the regular files of the vault (a link to one
\* counts) that lie in no excluded directory and bear no excluded name.
IncludedFiles ==
    {RelativeTo(p, VAULT) :
        p \in {q \in DOMAIN fs :
                 /\ IsPrefix(VAULT, q) /\ q # VAULT
                 /\ is_file(q)
                 /\ \A k \in (Len(VAULT) + 1)..Len(q) :
                       q[k] \notin EXCLUDED_DIRS
                 /\ Name(q) \notin EXCLUDED_FILES}}

\* The proper ancestor directories, below the root, of the included files.
AncestorFolders ==
    UNION {{SubSeq(f, 1, k) : k \in 1..(Len(f) - 1)} : f \in IncludedFiles}

\* C17: the node list holds exactly one node for each included file path
\* and exactly one folder node for each proper ancestor directory (below the
\* root) of an included file, and no other node; the ids are pairwise
\* distinct; a directory with no included file below it has no node.
C17_NodeSet ==
    gr_reply.called =>
        /\ \A i, j \in 1..Len(gr_reply.nodes) :
              i # j => gr_reply.nodes[i].id # gr_reply.nodes[j].id
        /\ NodeIds \ FolderIds = IncludedFiles
        /\ FolderIds = AncestorFolders
        /\ \A d \in DOMAIN fs :
              ( /\ IsPrefix(VAULT, d) /\ fs[d].kind = "dir"
                /\ ~\E f \in IncludedFiles : IsPrefix(RelativeTo(d, VAULT), f) )
                  => RelativeTo(d, VAULT) \notin NodeIds

\* Witness: a graph over a vault with a folder nested in another, both with
\* included files, and a folder that holds an excluded file only.
C17_Witness ==
    /\ gr_reply.called
    /\ <<"Notes", "X", "Y.md">> \in NodeIds
    /\ <<"Notes", "A.md">> \in NodeIds
    /\ {<<"Notes">>, <<"Notes", "X">>} \subseteq FolderIds
    /\ Exists(<<"vault", "hid", "server.py">>)
    /\ Exists(<<"vault", ".git", "B.md">>)

\* The position at which the pair of edge e was first produced.
FirstProduced(e) ==
    CHOOSE k \in 1..Len(gr_reply.produced) :
        /\ gr_reply.produced[k].source = e.source
        /\ gr_reply.produced[k].target = e.target
        /\ \A j \in 1..(k - 1) :
              ~( /\ gr_reply.produced[j].source = e.source
                 /\ gr_reply.produced[j].target = e.target )

\* C18: no two edges of the graph have the same (source, target); every
\* pair produced survives once, as the edge that produced it first, and the
\* survivors are in the order in which their pairs were first produced; a
\* note that names one target several times has one link edge to it.
C18_Dedup ==
    gr_reply.called =>
        /\ \A i, j \in 1..Len(gr_reply.edges) :
              i < j =>
                  /\ ~( /\ gr_reply.edges[i].source = gr_reply.edges[j].source
                        /\ gr_reply.edges[i].target = gr_reply.edges[j].target )
                  /\ FirstProduced(gr_reply.edges[i])
                         < FirstProduced(gr_reply.edges[j])
        /\ \A i \in 1..Len(gr_reply.edges) :
              /\ \E k \in 1..Len(gr_reply.produced) :
                    gr_reply.produced[k].source = gr_reply.edges[i].source
                        /\ gr_reply.produced[k].target = gr_reply.edges[i].target
              /\ gr_reply.edges[i]
                     = gr_reply.produced[FirstProduced(gr_reply.edges[i])]
        /\ \A k \in 1..Len(gr_reply.produced) :
              Cardinality({i \in 1..Len(gr_reply.edges) :
                  /\ gr_reply.edges[i].source = gr_reply.produced[k].source
                  /\ gr_reply.edges[i].target = gr_reply.produced[k].target})
                = 1

\* Witness: the note Notes/X/Y.md names the target A three times, and the
\* folder edge from Notes to Notes/X was produced twice.
C18_Witness ==
    /\ gr_reply.called
    /\ Cardinality({k \in 1..Len(gr_reply.produced) :
          /\ gr_reply.produced[k].source = <<"Notes", "X", "Y.md">>
          /\ gr_reply.produced[k].target = <<"Notes", "A.md">>}) = 3
    /\ Cardinality({k \in 1..Len(gr_reply.produced) :
          /\ gr_reply.produced[k].source = <<"Notes">>
          /\ gr_reply.produced[k].target = <<"Notes", "X">>}) = 2
    /\ Len(gr_reply.edges) < Len(gr_reply.produced)

\* The link edges of the latest graph, as (source, target) pairs.
LinkEdges ==
    {<<gr_reply.edges[i].source, gr_reply.edges[i].target>> :
        i \in {j \in 1..Len(gr_reply.edges) :
                 gr_reply.edges[j].kind = "link"}}

\* The vault of the scenario: Notes/A.md and Notes/B.md and nothing else.
ScenarioVault ==
    {p \in DOMAIN fs : IsPrefix(VAULT, p)}
        = {VAULT, <<"vault", "Notes">>, <<"vault", "Notes", "A.md">>,
           <<"vault", "Notes", "B.md">>}

\* C19: the link edges are exactly the pairs (note, target path) of the
\* wikilinks whose target was resolved to a path that is the id of a node
\* and is not the note itself; no edge leads from a node to itself; in the
\* scenario the nodes are Notes/A.md, Notes/B.md and Notes and the only
\* link edge is Notes/A.md -> Notes/B.md.
C19_LinkEdges ==
    gr_reply.called =>
        /\ LinkEdges =
              {<<gr_reply.resolved[k].source,
                 gr_reply.resolved[k].target_path.path>> :
                  k \in {j \in 1..Len(gr_reply.resolved) :
                     /\ gr_reply.resolved[j].target_path.ok
                     /\ gr_reply.resolved[j].target_path.path \in NodeIds
                     /\ gr_reply.resolved[j].target_path.path
                            # gr_reply.resolved[j].source}}
        /\ \A i \in 1..Len(gr_reply.edges) :
              gr_reply.edges[i].source # gr_reply.edges[i].target
        /\ ScenarioVault =>
              /\ NodeIds = {<<"Notes", "A.md">>, <<"Notes", "B.md">>,
                            <<"Notes">>}
              /\ LinkEdges = {<<<<"Notes", "A.md">>, <<"Notes", "B.md">>>>}

\* Witness: a graph in which a wikilink was resolved to its own note, one
\* to nothing, one to a path that is no node and one made an edge.
C19_Witness ==
    /\ gr_reply.called
    /\ LinkEdges # {}
    /\ \E k \in 1..Len(gr_reply.resolved) :
          /\ gr_reply.resolved[k].target_path.ok
          /\ gr_reply.resolved[k].target_path.path
                 = gr_reply.resolved[k].source
    /\ \E k \in 1..Len(gr_reply.resolved) :
          ~gr_reply.resolved[k].target_path.ok
    /\ \E k \in 1..Len(gr_reply.resolved) :
          /\ gr_reply.resolved[k].target_path.ok
          /\ gr_reply.resolved[k].target_path.path \notin NodeIds

\* Witness: the graph of the scenario.
C19_Scenario == gr_reply.called /\ ScenarioVault

\* The entries of the vault named tname that lie in no excluded directory.
NamedOutsideExcluded(tname) ==
    {RelativeTo(p, VAULT) :
        p \in {q \in DOMAIN fs :
                 /\ IsPrefix(VAULT, q) /\ q # VAULT
                 /\ Name(q) = tname
                 /\ \A k \in (Len(VAULT) + 1)..Len(q) :
                       q[k] \notin EXCLUDED_DIRS}}

\* Steps (a) and (b) for the k-th wikilink resolved: when the target exists
\* as a path relative to the vault it is the result; when it does not and
\* the target with ".md" appended does, that is.
StepsAB(k) ==
    LET r == gr_reply.resolved[k]
    IN  /\ PathExists(Join(VAULT, r.target)) =>
              r.target_path = Some(r.target)
        /\ ( /\ ~PathExists(Join(VAULT, r.target))
             /\ PathExists(Join(VAULT, AppendMd(r.target))) ) =>
              r.target_path = Some(AppendMd(r.target))

\* The k-th wikilink resolved went to the search by name.
ByName(k) ==
    /\ ~PathExists(Join(VAULT, gr_reply.resolved[k].target))
    /\ ~PathExists(Join(VAULT, AppendMd(gr_reply.resolved[k].target)))

OrderParts ==
    { <<"vault", "0a">> :> File("z", 100),
      <<"vault", "Notes">> :> Dir
          @@ <<"vault", "Notes", "B.md">> :> File("b", 100),
      <<"vault", "Notes">> :> Dir
          @@ <<"vault", "Notes", "A.md">> :> File("a", 100),
      <<"vault", "Notes">> :> Dir
          @@ <<"vault", "Notes", "X">> :> Dir
          @@ <<"vault", "Notes", "X", "Y.md">> :> File("y", 100),
      <<"vault", "X">> :> Dir
          @@ <<"vault", "X", "A.md">> :> File("c", 100)
          @@ <<"vault", "X", "Y.md">> :> File("d", 100),
      <<"vault", "hid">> :> Dir
          @@ <<"vault", "hid", "A.md">> :> File("h", 100) }

OrderVaults == {MergeParts(S) : S \in SUBSET OrderParts}

InitWalkOrder ==
    /\ fs \in OrderVaults
    /\ raw_path = <<>> /\ sb_result = None /\ sb_prev = None /\ sb_calls = 0
    /\ hs_taken = FALSE /\ hs_fs = fs /\ hs_walk = <<>> /\ hs_input = <<>>
    /\ CacheIdle
    /\ observe = "none"
    /\ wk_stack = <<VAULT>>
    /\ wk_out = <<>>
    /\ wk_done = <<>>
    /\ tr_reply = NoTree
    /\ gr_reply = NoGraph
    /\ site = NoSite
    /\ md_reply = NoMarkdown
    /\ RestIdle
    /\ ServerIdle

SpecWalkOrder == InitWalkOrder /\ [][NextWalk]_vars

\* The relative paths of two directories of the vault that have the same
\* parent, d1 before d2 by name.
Siblings(d1, d2) ==
    /\ Exists(VAULT \o d1) /\ fs[VAULT \o d1].kind = "dir"
    /\ Exists(VAULT \o d2) /\ fs[VAULT \o d2].kind = "dir"
    /\ d1 # <<>> /\ d2 # <<>>
    /\ Parent(d1) = Parent(d2)
    /\ NameLess(Name(d1), Name(d2))

Under(d, rel) == IsPrefix(d, rel) /\ Len(rel) > Len(d)

RelDirs == {RelativeTo(p, VAULT) : p \in {q \in DOMAIN fs : IsPrefix(VAULT, q)}}

\* The files directly inside one directory are yielded in ascending order
\* of name.
AscendingWithin(run) ==
    \A j, k \in 1..Len(run) :
        ( /\ j < k
          /\ Parent(run[j][1]) = Parent(run[k][1]) ) =>
            NameLess(Name(run[j][1]), Name(run[k][1]))

\* C30 as stated: of two sibling directories, every file under the one that
\* comes first by name is yielded before every file under the other; the
\* files directly inside one directory are yielded in ascending name order.
C30_Original ==
    \A i \in 1..Len(wk_done) :
        /\ AscendingWithin(wk_done[i])
        /\ \A d1, d2 \in RelDirs :
              Siblings(d1, d2) =>
                  \A j, k \in 1..Len(wk_done[i]) :
                      ( /\ Under(d1, wk_done[i][j][1])
                        /\ Under(d2, wk_done[i][k][1]) ) => j < k

\* C30, amended: the directories are taken off a stack, so of two sibling
\* directories every file under the one that comes later by name is
\* yielded before every file under the other; the files directly inside one
\* directory are yielded in ascending name order.
C30_Amended ==
    \A i \in 1..Len(wk_done) :
        /\ AscendingWithin(wk_done[i])
        /\ \A d1, d2 \in RelDirs :
              Siblings(d1, d2) =>
                  \A j, k \in 1..Len(wk_done[i]) :
                      ( /\ Under(d1, wk_done[i][j][1])
                        /\ Under(d2, wk_done[i][k][1]) ) => k < j

\* Witness: a finished run over three sibling folders with files, one of
\* them with a nested folder, and two files in one folder.
C30_Witness ==
    /\ Len(wk_done) >= 1
    /\ TimesYielded(1, <<"Notes", "A.md">>) = 1
    /\ TimesYielded(1, <<"Notes", "B.md">>) = 1
    /\ TimesYielded(1, <<"Notes", "X", "Y.md">>) = 1
    /\ TimesYielded(1, <<"X", "A.md">>) = 1
    /\ TimesYielded(1, <<"hid", "A.md">>) = 1

\* The sum of the links values of the first n nodes of the latest graph.
RECURSIVE LinksSum(_)
LinksSum(n) ==
    IF n = 0 THEN 0 ELSE gr_reply.nodes[n].links + LinksSum(n - 1)

\* The positions in the latest edge list at which id occurs, as a source
\* and as a target.
AsSource(id) ==
    {i \in 1..Len(gr_reply.edges) : gr_reply.edges[i].source = id}

AsTarget(id) ==
    {i \in 1..Len(gr_reply.edges) : gr_reply.edges[i].target = id}

\* C21: each node's links value is the number of deduplicated edges of which
\* its id is the source plus the number of which it is the target; the
\* links values sum to twice the number of edges; a node that no edge
\* touches has links = 0.
C21_LinkCounts ==
    gr_reply.called =>
        /\ \A i \in 1..Len(gr_reply.nodes) :
              /\ gr_reply.nodes[i].links
                     = Cardinality(AsSource(gr_reply.nodes[i].id))
                         + Cardinality(AsTarget(gr_reply.nodes[i].id))
              /\ ( AsSource(gr_reply.nodes[i].id)
                      \cup AsTarget(gr_reply.nodes[i].id) = {} ) =>
                    gr_reply.nodes[i].links = 0
        /\ LinksSum(Len(gr_reply.nodes)) = 2 * Len(gr_reply.edges)

\* Witness: a graph with a node that no edge touches, a node with three
\* edge ends or more, and edges that were dropped as duplicates.
C21_Witness ==
    /\ gr_reply.called
    /\ \E i \in 1..Len(gr_reply.nodes) : gr_reply.nodes[i].links = 0
    /\ \E i \in 1..Len(gr_reply.nodes) : gr_reply.nodes[i].links >= 3
    /\ Len(gr_reply.edges) < Len(gr_reply.produced)
    /\ LinkEdges # {}

\* The folder edges of the latest graph, as (source, target) pairs.
FolderEdges ==
    {<<gr_reply.edges[i].source, gr_reply.edges[i].target>> :
        i \in {j \in 1..Len(gr_reply.edges) :
                 gr_reply.edges[j].kind = "folder"}}

\* The entry a node's path leads to.
EntryOf(id) == fs[LookupFrom(<<>>, VAULT \o id).path]

\* The wikilink targets resolved for the note id, in order.
ResolvedFor(id) ==
    LET mine == SelectSeq(gr_reply.resolved, LAMBDA r : r.source = id)
    IN  [k \in 1..Len(mine) |-> mine[k].target]

\* C22: when a note cannot be read the graph is built all the same: the
\* nodes are those of the included files and their ancestor folders,
\* whether readable or not, every folder edge is there, the wikilinks of
\* every readable note are resolved and make their link edges, and only
\* the unreadable note contributes none.
C22_Tolerates ==
    gr_reply.called =>
        /\ NodeIds \ FolderIds = IncludedFiles
        /\ FolderIds = AncestorFolders
        /\ FolderEdges = {<<Parent(x), x>> : x \in {y \in NodeIds : Len(y) > 1}}
        /\ \A i \in 1..Len(gr_reply.nodes) :
              gr_reply.nodes[i].group = "note" =>
                  ResolvedFor(gr_reply.nodes[i].id) =
                      IF EntryOf(gr_reply.nodes[i].id).mode = "-" THEN <<>>
                      ELSE wikilinks(TextTokens(
                               EntryOf(gr_reply.nodes[i].id).content))
        /\ LinkEdges =
              {<<gr_reply.resolved[k].source,
                 gr_reply.resolved[k].target_path.path>> :
                  k \in {j \in 1..Len(gr_reply.resolved) :
                     Emits(gr_reply.resolved[j].target_path, gr_reply.nodes,
                           gr_reply.resolved[j].source)}}

\* Witness: the note A.md at the root cannot be read; it is a node, it has
\* no link edge, and the notes after it in the node list have theirs.
C22_Witness ==
    /\ gr_reply.called
    /\ Exists(<<"vault", "A.md">>) /\ fs[<<"vault", "A.md">>].mode = "-"
    /\ <<"A.md">> \in NodeIds
    /\ ~\E e \in LinkEdges : e[1] = <<"A.md">>
    /\ \E e \in LinkEdges : e[1] = <<"Notes", "A.md">>
    /\ \E e \in LinkEdges : e[1] = <<"Notes", "X", "Y.md">>

(***************************************************************************)
(* Markdown Link Transformer: process_wikilinks and auto_link_urls         *)
(* (server.py:179-215).  A text is a sequence of tokens: each of the       *)
(* characters "!", "[", "]", "|", "(", ")" and " " is a token of its own,  *)
(* and every other token is a word that holds none of these characters     *)
(* and holds "http" at its start only.  On such texts the regular          *)
(* expressions of the two passes match token by token.                     *)
(***************************************************************************)
Drop(text, n) == SubSeq(text, n + 1, Len(text))

\* The longest prefix of text that holds no token of stop.
RECURSIVE Run(_, _)
Run(text, stop) ==
    IF text = <<>> \/ Head(text) \in stop THEN <<>>
    ELSE <<Head(text)>> \o Run(Tail(text), stop)

SpecialTokens == {"!", "[", "]", "|", "(", ")", " "}

\* The characters of a token, and the string a text spells.
TokChars(t) == IF t \in SpecialTokens THEN <<t>> ELSE Chars(t)

RECURSIVE Str(_)
Str(text) == IF text = <<>> THEN <<>>
             ELSE TokChars(Head(text)) \o Str(Tail(text))

\* Path(target).name: what follows the last "/".
RECURSIVE PathName(_)
PathName(cs) ==
    IF \E i \in 1..Len(cs) : cs[i] = "/"
    THEN PathName(Tail(cs))
    ELSE cs

\* Path(target).suffix.lower()
Ext(target) == Lower(Suffix(PathName(Str(target))))

ImageExts ==
    {<<".", "p", "n", "g">>, <<".", "j", "p", "g">>,
     <<".", "j", "p", "e", "g">>, <<".", "g", "i", "f">>,
     <<".", "s", "v", "g">>, <<".", "w", "e", "b", "p">>}

PdfExt == <<".", "p", "d", "f">>

NoMatch == [ok |-> FALSE, target |-> <<>>, alias |-> <<>>, len |-> 0]

\* \[\[([^\]|]+?)(?:\|([^\]]*?))?\]\] tried at the start of text.  The
\* target cannot hold "]" or "|" and what follows it must start with one of
\* them, so the target is the whole run up to the first of them; likewise
\* the alias is the whole run up to the first "]".
MatchWikilink(text) ==
    IF ~StartsWith(text, <<"[", "[">>) THEN NoMatch
    ELSE LET target == Run(Drop(text, 2), {"]", "|"})
             after == Drop(text, 2 + Len(target))
         IN  IF target = <<>> THEN NoMatch
             ELSE IF StartsWith(after, <<"]", "]">>)
             THEN [ok |-> TRUE, target |-> target, alias |-> <<>>,
                   len |-> Len(target) + 4]
             ELSE IF after # <<>> /\ Head(after) = "|"
             THEN LET alias == Run(Tail(after), {"]"})
                  IN  IF StartsWith(Drop(after, 1 + Len(alias)),
                                    <<"]", "]">>)
                      THEN [ok |-> TRUE, target |-> target, alias |-> alias,
                            len |-> Len(target) + Len(alias) + 5]
                      ELSE NoMatch
             ELSE NoMatch

\* f'[{text}]({scheme}{target})'
MdLink(text, scheme, target) ==
    <<"[">> \o text \o <<"]", "(", scheme>> \o target \o <<")">>

replace_embed(m) ==
    LET ext == Ext(m.target)
    IN  IF ext \in ImageExts
        THEN <<"!">> \o MdLink(m.target, "/raw/", m.target)
        ELSE IF ext = PdfExt THEN MdLink(m.target, "#pdf:", m.target)
        ELSE MdLink(m.target, "#file:", m.target)

\* Mutant: ".md" is appended to every target of a note link.
ReplaceLinkAlwaysMd(m) ==
    LET display == IF m.alias # <<>> THEN m.alias ELSE m.target
        ext == Ext(m.target)
    IN  IF ext = PdfExt THEN MdLink(display, "#pdf:", m.target)
        ELSE IF ext \in ImageExts THEN MdLink(display, "#img:", m.target)
        ELSE MdLink(display, "#note:", Append(m.target, ".md"))

replace_link(m) ==
    LET display == IF m.alias # <<>> THEN m.alias ELSE m.target
        ext == Ext(m.target)
    IN  IF ext = PdfExt THEN MdLink(display, "#pdf:", m.target)
        ELSE IF ext \in ImageExts THEN MdLink(display, "#img:", m.target)
        ELSE MdLink(display, "#note:",
                    IF ext = <<>> THEN Append(m.target, ".md") ELSE m.target)

\* re.sub(r'!\[\[...\]\]', replace_embed, text): leftmost matches, none
\* overlapping another.
RECURSIVE SubEmbeds(_)
SubEmbeds(text) ==
    IF text = <<>> THEN <<>>
    ELSE LET m == MatchWikilink(Tail(text))
         IN  IF Head(text) = "!" /\ m.ok
             THEN replace_embed(m) \o SubEmbeds(Drop(text, 1 + m.len))
             ELSE <<Head(text)>> \o SubEmbeds(Tail(text))

\* re.sub(r'\[\[...\]\]', replace_link, text)
RECURSIVE SubLinks(_)
SubLinks(text) ==
    IF text = <<>> THEN <<>>
    ELSE LET m == MatchWikilink(text)
         IN  IF m.ok
             THEN replace_link(m) \o SubLinks(Drop(text, m.len))
             ELSE <<Head(text)>> \o SubLinks(Tail(text))

process_wikilinks(text) == SubLinks(SubEmbeds(text))

\* https?:// at the start of a word.  The words whose characters are not
\* tabulated hold no URL.
IsUrlStart(t) ==
    /\ t \in KnownNames \ SpecialTokens
    /\ \/ StartsWith(Chars(t), <<"h", "t", "t", "p", ":", "/", "/">>)
       \/ StartsWith(Chars(t), <<"h", "t", "t", "p", "s", ":", "/", "/">>)

\* [^\s<>\)\]]+ after the scheme: the tokens up to the first of " ", ")"
\* and "]" (no text holds "<" or ">").
UrlStop == {" ", ")", "]"}

\* re.sub(r'(?<!\]\()(?<!\()(https?://[^\s<>\)\]]+)', ..., text); before is
\* the token that precedes text ("" at the start).  The character before a
\* URL is the last one of that token, and it is "(" for the token "(" only.
RECURSIVE SubUrls(_, _)
SubUrls(text, before) ==
    IF text = <<>> THEN <<>>
    ELSE IF IsUrlStart(Head(text)) /\ before # "("
    THEN LET url == <<Head(text)>> \o Run(Tail(text), UrlStop)
         IN  <<"[">> \o url \o <<"]", "(">> \o url \o <<")">>
                 \o SubUrls(Drop(text, Len(url)), ")")
    ELSE <<Head(text)>> \o SubUrls(Tail(text), Head(text))

auto_link_urls(text) == SubUrls(text, "")

(***************************************************************************)
(* The transformer on its own: a text is put together from a few pieces    *)
(* (wikilinks and embeds with and without alias and of every kind of       *)
(* extension, a wikilink without a target, URLs bare, in parentheses and   *)
(* in a markdown link, words and single brackets), render_markdown's two   *)
(* passes are applied to it and auto_link_urls is applied once more to     *)
(* what it returned.                                                       *)
(***************************************************************************)
MaxPieces == 3

Wikilink(target, alias) ==
    [kind |-> "link", target |-> target, alias |-> alias,
     tokens |-> <<"[", "[">> \o target
                    \o (IF alias = <<>> THEN <<>> ELSE <<"|">> \o alias)
                    \o <<"]", "]">>]

Embed(target) ==
    [kind |-> "embed", target |-> target, alias |-> <<>>,
     tokens |-> <<"!", "[", "[">> \o target \o <<"]", "]">>]

Plain(tokens) ==
    [kind |-> "text", target |-> <<>>, alias |-> <<>>, tokens |-> tokens]

Url == "https://x"

WellFormedPieces ==
    { Wikilink(<<"A">>, <<>>), Wikilink(<<"A">>, <<"B">>),
      Wikilink(<<"A.md">>, <<>>), Wikilink(<<"B.pdf">>, <<>>),
      Wikilink(<<"X.PNG">>, <<"A">>), Wikilink(<<"A">>, <<Url>>),
      Embed(<<"X.PNG">>), Embed(<<"B.pdf">>), Embed(<<"A">>),
      Plain(<<"A">>), Plain(<<" ">>), Plain(<<Url>>),
      Plain(<<"(", Url, ")">>), Plain(<<"[", Url, "]", "(", Url, ")">>) }

OddPieces ==
    { Plain(<<"[", "[", "]", "]">>), Plain(<<"[", "[", "|", "A", "]", "]">>),
      Plain(<<"[">>), Plain(<<"!">>), Plain(<<"]">>) }

Pieces == WellFormedPieces \cup OddPieces

PieceSeqs == UNION {[1..n -> Pieces] : n \in 1..MaxPieces}

RECURSIVE TextOf(_)
TextOf(pieces) ==
    IF pieces = <<>> THEN <<>>
    ELSE Head(pieces).tokens \o TextOf(Tail(pieces))

InitMarkdown ==
    /\ fs = MergeParts({})
    /\ raw_path = <<>> /\ sb_result = None /\ sb_prev = None /\ sb_calls = 0
    /\ hs_taken = FALSE /\ hs_fs = fs /\ hs_walk = <<>> /\ hs_input = <<>>
    /\ CacheIdle
    /\ observe = "none"
    /\ wk_stack = <<>> /\ wk_out = <<>> /\ wk_done = <<>>
    /\ tr_reply = NoTree /\ gr_reply = NoGraph /\ site = NoSite
    /\ RestIdle
    /\ \E pieces \in PieceSeqs :
          md_reply = [NoMarkdown EXCEPT !.step = "given", !.pieces = pieces,
                                        !.text = TextOf(pieces)]
    /\ ServerIdle

markdownFrame == <<fs, sandboxVars, hashVars, cacheVars, observe, walkVars,
                   tr_reply, gr_reply, site, dl_reply, sg_reply, browser,
                   serverVars>>

\* render_markdown(text), up to the conversion to HTML.
RenderMarkdown ==
    /\ md_reply.step = "given"
    /\ \E text \in {process_wikilinks(md_reply.text)} :
          md_reply' = [md_reply EXCEPT !.step = "rendered",
                                       !.wikilinked = text,
                                       !.linked = auto_link_urls(text)]
    /\ UNCHANGED markdownFrame

\* auto_link_urls(text) on a text it returned.
AutoLinkAgain ==
    /\ md_reply.step = "rendered"
    /\ md_reply' = [md_reply EXCEPT !.step = "relinked",
                                    !.relinked = auto_link_urls(md_reply.linked)]
    /\ UNCHANGED markdownFrame

NextMarkdown == RenderMarkdown \/ AutoLinkAgain

SpecMarkdown == InitMarkdown /\ [][NextMarkdown]_vars

\* What the rules of the transformer say of a target by its extension.
ExtensionKind(target) ==
    CASE target = <<"X.PNG">> -> "image"
      [] target = <<"B.pdf">> -> "pdf"
      [] target = <<"A.md">> -> "other"
      [] target = <<"A">> -> "none"

\* What the rules say a piece is rewritten into.
Rewritten(p) ==
    LET t == p.target
        d == IF p.alias = <<>> THEN p.target ELSE p.alias
        kind == ExtensionKind(t)
    IN  IF p.kind = "embed"
        THEN IF kind = "image"
             THEN <<"!", "[">> \o t \o <<"]", "(", "/raw/">> \o t \o <<")">>
             ELSE IF kind = "pdf"
             THEN <<"[">> \o t \o <<"]", "(", "#pdf:">> \o t \o <<")">>
             ELSE <<"[">> \o t \o <<"]", "(", "#file:">> \o t \o <<")">>
        ELSE IF p.kind = "link"
        THEN IF kind = "pdf"
             THEN <<"[">> \o d \o <<"]", "(", "#pdf:">> \o t \o <<")">>
             ELSE IF kind = "image"
             THEN <<"[">> \o d \o <<"]", "(", "#img:">> \o t \o <<")">>
             ELSE IF kind = "none"
             THEN <<"[">> \o d \o <<"]", "(", "#note:">> \o t
                      \o <<".md", ")">>
             ELSE <<"[">> \o d \o <<"]", "(", "#note:">> \o t \o <<")">>
        ELSE p.tokens

RECURSIVE RewrittenText(_)
RewrittenText(pieces) ==
    IF pieces = <<>> THEN <<>>
    ELSE Rewritten(Head(pieces)) \o RewrittenText(Tail(pieces))

\* Some "[[" of the text is followed, later, by a "]]".
HasWikiBrackets(text) ==
    \E i, j \in 1..Len(text) :
        /\ i + 1 < j /\ j < Len(text)
        /\ text[i] = "[" /\ text[i + 1] = "["
        /\ text[j] = "]" /\ text[j + 1] = "]"

AllWellFormed(pieces) ==
    \A i \in 1..Len(pieces) : pieces[i] \in WellFormedPieces

\* C27 as stated: every embed and every wikilink of the text is rewritten
\* as the rules say, whatever stands around it, and no "[[...]]" is left in
\* what process_wikilinks returns.
C27_Original ==
    md_reply.step \in {"rendered", "relinked"} =>
        /\ AllWellFormed(md_reply.pieces) =>
              md_reply.wikilinked = RewrittenText(md_reply.pieces)
        /\ ~HasWikiBrackets(md_reply.wikilinked)

\* C27: in a text whose brackets are those of embeds and wikilinks that have
\* a target (and of markdown links), process_wikilinks rewrites every
\* "![[t]]" into an image reference to /raw/t, a link to #pdf:t or a link to
\* #file:t by the extension of t, and every "[[t]]" or "[[t|d]]" into a
\* link with text d (t when there is no alias) to #pdf:t, #img:t or #note:t,
\* ".md" appended to t exactly when t has no extension; no embed is
\* rewritten by the wikilink rule and no "[[" is left.  A "[[...]]" without
\* a target ("[[]]", "[[|d]]") is returned as it was written.
C27_Amended ==
    md_reply.step \in {"rendered", "relinked"} =>
        /\ AllWellFormed(md_reply.pieces) =>
              /\ md_reply.wikilinked = RewrittenText(md_reply.pieces)
              /\ ~\E i \in 1..(Len(md_reply.wikilinked) - 1) :
                     /\ md_reply.wikilinked[i] = "["
                     /\ md_reply.wikilinked[i + 1] = "["
        /\ (Len(md_reply.pieces) = 1 /\ md_reply.pieces[1] \in OddPieces) =>
              md_reply.wikilinked = md_reply.text

\* An embed of an image, a wikilink without extension and one with the
\* extension of a note have been rewritten.
C27_Witness ==
    /\ md_reply.step = "rendered"
    /\ md_reply.pieces = <<Embed(<<"X.PNG">>), Wikilink(<<"A">>, <<"B">>),
                           Wikilink(<<"A.md">>, <<>>)>>
    /\ md_reply.wikilinked =
          <<"!", "[", "X.PNG", "]", "(", "/raw/", "X.PNG", ")",
            "[", "B", "]", "(", "#note:", "A", ".md", ")",
            "[", "A.md", "]", "(", "#note:", "A.md", ")">>

\* The pieces that are a URL outside every link.
BareUrlPieces == {Plain(<<Url>>)}

HasBareUrl(pieces) ==
    \E i \in 1..Len(pieces) : pieces[i] \in BareUrlPieces

\* The bare URLs of a well-formed text wrapped once, everything else as the
\* wikilink pass left it.
RECURSIVE WrappedOnce(_)
WrappedOnce(pieces) ==
    IF pieces = <<>> THEN <<>>
    ELSE (IF Head(pieces) \in BareUrlPieces
          THEN <<"[", Url, "]", "(", Url, ")">>
          ELSE Rewritten(Head(pieces))) \o WrappedOnce(Tail(pieces))

\* C28: auto_link_urls leaves a URL that stands in a markdown link alone, as
\* destination and as display text, in a link of the text and in one the
\* wikilink pass made; it wraps every bare URL once; and applied to what it
\* returned it changes nothing.
C28_Original ==
    /\ (md_reply.step \in {"rendered", "relinked"}
           /\ AllWellFormed(md_reply.pieces)) =>
          md_reply.linked = WrappedOnce(md_reply.pieces)
    /\ md_reply.step = "relinked" => md_reply.relinked = md_reply.linked

\* What holds of auto_link_urls: a URL that follows "(" is left alone, and a
\* text without URL is returned as it is.
C28_Destinations ==
    md_reply.step \in {"rendered", "relinked"} =>
        /\ md_reply.pieces = <<Plain(<<"(", Url, ")">>)>> =>
              md_reply.linked = md_reply.text
        /\ (\A i \in 1..Len(md_reply.text) : md_reply.text[i] # Url) =>
              md_reply.linked = md_reply.wikilinked

(***************************************************************************)
(* Static Exporter: build() and what it calls (build_static.py:63-213,     *)
(* 355-423).  The output directory is part of the vault's filesystem; what *)
(* the tree, graph and note documents written there say is kept in site,   *)
(* by the path of the document below the output directory.                 *)
(***************************************************************************)
OUTPUT == Append(VAULT, "_site")

DATA == Append(OUTPUT, "data")

NOTES == Append(DATA, "notes")

RAW == Append(OUTPUT, "raw")

\* The entries below directory d.
Below(d) == {p \in DOMAIN fs : IsPrefix(d, p) /\ Len(p) > Len(d)}

\* Mutant: the loop removes the files directly inside OUTPUT only.
ClearedFilesOnly(f) ==
    [p \in {q \in DOMAIN f :
               ~(Parent(q) = OUTPUT /\ f[q].kind # "dir")
                   \/ Name(q) = ".git"} |-> f[p]]

\* The loop over OUTPUT.iterdir() (lines 358-365): everything directly
\* inside OUTPUT but ".git" is removed, a directory with all it holds.
Cleared(f) ==
    [p \in {q \in DOMAIN f :
               \/ ~IsPrefix(OUTPUT, q)
               \/ q = OUTPUT
               \/ IsPrefix(Append(OUTPUT, ".git"), q)} |-> f[p]]

\* clean(items) of generate_tree
RECURSIVE clean(_)
clean(items) ==
    LET kept == SelectSeq(items,
                    LAMBDA item : item.name \notin
                                      {"_site", "build_static.py", ".github"})
    IN  [i \in 1..Len(kept) |->
            IF kept[i].type = "folder"
            THEN [kept[i] EXCEPT !.children = clean(@)]
            ELSE kept[i]]

generate_tree == {clean(tree) : tree \in build_tree(VAULT, <<>>, {})}

\* The texts of the notes as the transformer reads them, character tokens
\* apart.
MdTokens(text) ==
    CASE text = "See [[B]] and [[missing]]." ->
            <<"See", " ", "[", "[", "B", "]", "]", " ", "and", " ",
              "[", "[", "missing", "]", "]", ".">>
      [] text = "![[X.PNG]] [[B]]" ->
            <<"!", "[", "[", "X.PNG", "]", "]", " ",
              "[", "[", "B", "]", "]">>
      [] OTHER -> <<text>>

\* render_markdown(text), up to the conversion to HTML.
render_markdown(text) == auto_link_urls(process_wikilinks(MdTokens(text)))

\* html.replace('src="/raw/', 'src="raw/') and the same for href: a
\* destination that starts with /raw/ starts with raw/ instead.
StaticRaw(html) ==
    [i \in 1..Len(html) |->
        IF i > 1 /\ html[i - 1] = "(" /\ html[i] = "/raw/" THEN "raw/"
        ELSE html[i]]

\* "editable": False
NoteEditable == FALSE

\* generate_note_json(rel) for a note that can be read.
generate_note_json(rel) ==
    [kind |-> "note",
     html |-> StaticRaw(render_markdown(read_text(VAULT \o rel).text)),
     path |-> rel,
     name |-> Stem(Chars(Name(rel))),
     mtime |-> fs[Resolve(VAULT \o rel)].mtime,
     editable |-> NoteEditable]

\* f.suffix.lower() == ".md"
IsMd(rel) == Lower(Suffix(Chars(Name(rel)))) = DotMd

\* NOTES / (str(rel) + ".json"), below OUTPUT
NoteDocPath(rel) ==
    <<"data", "notes">> \o
        [rel EXCEPT ![Len(rel)] = NameOf(Chars(@) \o Chars(".json"))]

\* fpath.read_text and shutil.copy2 raise on a file that cannot be read.
Unreadable(rel) == ~read_text(VAULT \o rel).ok

\* The files of the list before the first one that cannot be read.
RECURSIVE ReadablePrefix(_)
ReadablePrefix(files) ==
    IF files = <<>> \/ Unreadable(Head(files)) THEN <<>>
    ELSE <<Head(files)>> \o ReadablePrefix(Tail(files))

Range(seq) == {seq[i] : i \in 1..Len(seq)}

MaxBuilds == 2

MaxEdits == 1

\* The names a search by name may be asked for.
SearchNames == {"A.md", "B.md", "missing.md", "X.PNG"}

\* f"notes_{stamp}.zip"; the stamp is the second the archive is made in.
ZipName(stamp) ==
    CASE stamp = 1 -> "notes_1.zip" [] stamp = 2 -> "notes_2.zip"
      [] stamp = 3 -> "notes_3.zip" [] OTHER -> "notes_4.zip"

\* path.write_text(...) and shutil.copy2(src, dst) for each path of writes,
\* after path.parent.mkdir(parents=True, exist_ok=True).
WriteAll(f, writes) ==
    [p \in DOMAIN f \cup DOMAIN writes
            \cup UNION {{SubSeq(q, 1, k) : k \in 1..(Len(q) - 1)} :
                           q \in DOMAIN writes} |->
        IF p \in DOMAIN writes THEN writes[p]
        ELSE IF p \in DOMAIN f THEN f[p]
        ELSE Dir]

\* The note documents of the notes mds, by their paths below OUTPUT.
NoteDocs(mds) ==
    [q \in {NoteDocPath(rel) : rel \in Range(mds)} |->
        generate_note_json(CHOOSE rel \in Range(mds) : NoteDocPath(rel) = q)]

\* The copies of the files copied, by their paths.
RawCopies(copied) ==
    [q \in {RAW \o rel : rel \in Range(copied)} |->
        fs[Resolve(VAULT \o RelativeTo(q, RAW))]]

\* What a run of build() writes up to its end or to the file it fails on:
\* tree.json, graph.json, the note documents of mds, the copies of copied
\* and, when it gets that far, the archive, the page and the two files
\* beside it.
BuildWrites(mds, copied, stamp, finished) ==
    (Append(DATA, "tree.json") :> File("tree", 1))
        @@ (Append(DATA, "graph.json") :> File("graph", 1))
        @@ [q \in {OUTPUT \o NoteDocPath(rel) : rel \in Range(mds)} |->
               File("note", 1)]
        @@ RawCopies(copied)
        @@ (IF finished
            THEN (Append(OUTPUT, ZipName(stamp)) :> File("zip", 1))
                    @@ (Append(OUTPUT, "index.html") :> File("page", 1))
                    @@ (Append(OUTPUT, ".nojekyll") :> File("", 1))
                    @@ (Append(OUTPUT, "README.md") :> File("readme", 1))
            ELSE <<>>)

BuildDocs(tree, graph, files, mds, stamp, finished) ==
    (<<"data", "tree.json">> :> [kind |-> "tree", tree |-> tree])
        @@ (<<"data", "graph.json">> :>
               [kind |-> "graph", nodes |-> graph.nodes,
                edges |-> graph.edges])
        @@ NoteDocs(mds)
        @@ (IF finished
            THEN <<ZipName(stamp)>> :>
                     [kind |-> "zip", members |-> Range(files)]
            ELSE <<>>)

\* The state a run of build() leaves: fs0 is the filesystem after the
\* output directory was cleared and NOTES and RAW were made.
BuildEffect(tree, pick, stamp, files, mds, copied, finished) ==
    \E fs0 \in {MkdirParents(MkdirParents(Cleared(fs), NOTES), RAW)},
       writes \in {BuildWrites(mds, copied, stamp, finished)},
       graph \in {BuildGraph(files, pick)} :
        \E fs1 \in {WriteAll(fs0, writes)},
           docs \in {BuildDocs(tree, graph, files, mds, stamp, finished)} :
            /\ fs' = fs1
            /\ site' = [site EXCEPT
                  !.runs = @ + 1,
                  !.ok = finished,
                  !.files = files,
                  !.docs = docs,
                  !.written = (DOMAIN fs1 \ DOMAIN Cleared(fs))
                                  \cup DOMAIN writes,
                  !.prev = [ok |-> site.ok, docs |-> site.docs,
                            raw |-> [p \in Below(RAW) |-> fs[p]]],
                  !.same = site.runs > 0 /\ ~site.edited,
                  !.edited = FALSE,
                  !.order = pick,
                  !.stamp = stamp]

buildFrame == <<sandboxVars, hashVars, cacheVars, observe, walkVars,
                tr_reply, gr_reply, md_reply, dl_reply, sg_reply, browser,
                serverVars>>

\* The order the filesystem lists in: as it was at the run before while
\* the vault is as it was, any order otherwise.
Orders ==
    IF site.runs > 0 /\ ~site.edited THEN {site.order}
    ELSE PicksOver(SearchNames)

Stamps == IF site.stamp = 0 THEN {1} ELSE {site.stamp, site.stamp + 1}

\* build(), run to its end.
Build ==
    /\ site.runs < MaxBuilds
    /\ \E files \in {collect_files} :
          /\ \A i \in 1..Len(files) : ~Unreadable(files[i])
          /\ \E tree \in generate_tree, pick \in Orders, stamp \in Stamps :
                BuildEffect(tree, pick, stamp, files, SelectSeq(files, IsMd),
                            files, TRUE)
    /\ UNCHANGED buildFrame

\* build() on a vault that holds a file it cannot read: read_text raises in
\* the loop over the notes, or copy2 in the loop over the files, and the run
\* ends there.
BuildFails ==
    /\ site.runs < MaxBuilds
    /\ \E files \in {collect_files} :
          /\ \E i \in 1..Len(files) : Unreadable(files[i])
          /\ \E tree \in generate_tree, pick \in Orders, stamp \in Stamps,
                mds \in {SelectSeq(files, IsMd)} :
                BuildEffect(tree, pick, stamp, files, ReadablePrefix(mds),
                            IF ReadablePrefix(mds) = mds
                            THEN ReadablePrefix(files) ELSE <<>>,
                            FALSE)
    /\ UNCHANGED buildFrame

(***************************************************************************)
(* The exporter on its own: build() is run, up to MaxBuilds times, on      *)
(* every vault put together from a set of parts, with the edit-all switch  *)
(* on and off, and between the runs a file of the vault may be removed or  *)
(* a note added.  The parts: the notes of the specification's scenario,    *)
(* the second of which embeds an image; a second note named B.md in        *)
(* another folder; the image, at the root; a note at the root whose name   *)
(* begins with "_site"; a note that cannot be read; and an output          *)
(* directory left by an earlier run (with a .git directory, a note         *)
(* document and a raw copy of a note that is gone, an old archive and a    *)
(* file put there by hand) beside the script.                              *)
(***************************************************************************)
BuildParts ==
    { <<"vault", "Notes">> :> Dir
          @@ <<"vault", "Notes", "A.md">>
                 :> File("See [[B]] and [[missing]].", 100)
          @@ <<"vault", "Notes", "B.md">> :> File("![[X.PNG]] [[B]]", 100),
      <<"vault", "X">> :> Dir
          @@ <<"vault", "X", "B.md">> :> File("c", 100),
      <<"vault", "X.PNG">> :> File("i", 100),
      <<"vault", "_site_a.md">> :> File("b", 100),
      <<"vault", "Notes">> :> Dir
          @@ <<"vault", "Notes", "Y.md">> :> LockedFile("b", 100),
      <<"vault", "build_static.py">> :> File("s", 100)
          @@ <<"vault", "_site">> :> Dir
          @@ <<"vault", "_site", ".git">> :> Dir
          @@ <<"vault", "_site", ".git", "A.md">> :> File("g", 100)
          @@ <<"vault", "_site", "CNAME">> :> File("h", 100)
          @@ <<"vault", "_site", "notes_1.zip">> :> File("zip", 1)
          @@ <<"vault", "_site", "data">> :> Dir
          @@ <<"vault", "_site", "data", "notes">> :> Dir
          @@ <<"vault", "_site", "data", "notes", "X.md.json">>
                 :> File("note", 1)
          @@ <<"vault", "_site", "raw">> :> Dir
          @@ <<"vault", "_site", "raw", "X.md">> :> File("b", 100) }

BuildVaults == {MergeParts(S) : S \in SUBSET BuildParts}

InitBuild ==
    /\ fs \in BuildVaults
    /\ raw_path = <<>> /\ sb_result = None /\ sb_prev = None /\ sb_calls = 0
    /\ hs_taken = FALSE /\ hs_fs = fs /\ hs_walk = <<>> /\ hs_input = <<>>
    /\ CacheIdle
    /\ observe = "none"
    /\ DerivedIdle
    /\ ALLOW_EDIT_ALL \in BOOLEAN
    /\ ALLOW_FILE_CREATION = TRUE
    /\ NobodyYet

\* The regular files of the vault outside the output directory.
VaultFiles ==
    {p \in Below(VAULT) : fs[p].kind = "file" /\ ~IsPrefix(OUTPUT, p)}

\* A file of the vault is removed.
RemoveFile ==
    /\ site.edits < MaxEdits
    /\ \E p \in VaultFiles : fs' = Unlink(fs, p)
    /\ site' = [site EXCEPT !.edited = TRUE, !.edits = @ + 1]
    /\ UNCHANGED buildFrame

\* A note is added to the folder Notes.
AddNote ==
    /\ site.edits < MaxEdits
    /\ ~Exists(<<"vault", "Notes", "X.md">>)
    /\ \E made_dir \in {MkdirParents(fs, <<"vault", "Notes">>)} :
          fs' = WriteText(made_dir, <<"vault", "Notes", "X.md">>, "b")
    /\ site' = [site EXCEPT !.edited = TRUE, !.edits = @ + 1]
    /\ UNCHANGED buildFrame

NextBuild == Build \/ BuildFails \/ RemoveFile \/ AddNote

SpecBuild == InitBuild /\ [][NextBuild]_vars

\* GET /api/note/<path> and GET /raw/<path> (server.py:283-290, 445-453):
\* the file of the vault the response is made from when the lookup gave
\* fpath, or None for 404 and 403.
ServedFile(fpath) ==
    IF ~fpath.ok \/ ~is_file(fpath.path) THEN None
    ELSE IF ~IsRelativeTo(Resolve(fpath.path), VAULT) THEN None
    ELSE Some(RelativeTo(fpath.path, VAULT))

\* The references of a rendered note: for each link destination that starts
\* with one of the schemes, the scheme and the path that follows it.
Schemes == {"#note:", "#pdf:", "#img:", "/raw/", "raw/"}

Refs(html) ==
    {[scheme |-> html[i],
      target |-> <<NameOf(Str(Run(Drop(html, i), {")"})))>>] :
        i \in {j \in 2..Len(html) :
                  html[j - 1] = "(" /\ html[j] \in Schemes}}

\* What the page of the live server fetches for a reference (loadNote at
\* server.py:1643, the raw URLs at 1682-1753) and the files it may be
\* given.
LiveFollow(ref) ==
    {ServedFile(fpath) : fpath \in resolve_vault_path(ref.target)}

\* What the page of the export fetches for it (patch_template,
\* build_static.py:200-212): data/notes/<target>.json for a note, raw/<target>
\* otherwise; the file the document or the copy was made from.
StaticFollow(ref) ==
    IF ref.scheme = "#note:"
    THEN IF is_file(OUTPUT \o NoteDocPath(ref.target))
         THEN Some(site.docs[NoteDocPath(ref.target)].path)
         ELSE None
    ELSE IF is_file(RAW \o ref.target) THEN Some(ref.target)
    ELSE None

\* The note documents of the export, and all references in them.
NoteDocsWritten ==
    {q \in DOMAIN site.docs : site.docs[q].kind = "note"}

SiteRefs == UNION {Refs(site.docs[q].html) : q \in NoteDocsWritten}

\* A run of build() has just ended normally.
Built == site.runs > 0 /\ site.ok /\ ~site.edited

\* C23: after an export, every wikilink and embed of every note leads, in
\* the export, to the vault file it leads to on the live server.
C23_Original ==
    Built => \A ref \in SiteRefs :
                 LiveFollow(ref) = {StaticFollow(ref)}

\* What holds: a reference that names an included file by its path from
\* the vault's root leads to that file in both.
C23_ExactPaths ==
    Built => \A ref \in SiteRefs :
                 ref.target \in Range(collect_files) =>
                     /\ StaticFollow(ref) = Some(ref.target)
                     /\ LiveFollow(ref) = {Some(ref.target)}

\* C24: collect_files returns the files the live server includes (regular
\* files with no excluded directory in their path and no excluded name)
\* but those inside _site and build_static.py, and leaves out no other.
C24_Original ==
    Built => Range(site.files) =
                 {rel \in Range(GraphFiles) :
                     rel[1] # "_site" /\ Name(rel) # "build_static.py"}

\* What holds: the files left out besides are those whose path string
\* begins with "_site".
C24_Prefix ==
    Built => Range(site.files) =
                 {rel \in Range(GraphFiles) :
                     ~StartsWith(RelStr(rel), Chars("_site"))}

\* C25: in every export, whatever the configuration, every file node of
\* data/tree.json and every note document under data/notes has
\* editable = false.
C25_Original ==
    site.runs > 0 =>
        /\ \A node \in FileNodes(site.docs[<<"data", "tree.json">>].tree) :
               ~node.editable
        /\ \A q \in NoteDocsWritten : ~site.docs[q].editable

\* What holds: the note documents are never editable, and the file nodes of
\* the tree have the value of the edit-all switch.
C25_Notes ==
    site.runs > 0 =>
        /\ \A node \in FileNodes(site.docs[<<"data", "tree.json">>].tree) :
               node.editable = ALLOW_EDIT_ALL
        /\ \A q \in NoteDocsWritten : ~site.docs[q].editable

\* The documents of a run but its archive, whose name bears the time.
Undated(docs) ==
    [q \in {r \in DOMAIN docs : docs[r].kind # "zip"} |-> docs[q]]

\* C26: after build() has completed, the output directory holds, apart
\* from its top-level .git, only what that run wrote: every note document
\* and every raw copy there is that of a file the vault now has and
\* includes, the only archive is that of the run, and a second run on an
\* unchanged vault gives the same tree, graph, note documents and raw
\* copies as the first.
C26_Regenerated ==
    Built =>
        /\ \A p \in Below(OUTPUT) :
               IsPrefix(Append(OUTPUT, ".git"), p) \/ p \in site.written
        /\ \A p \in Below(NOTES) :
               fs[p].kind = "file" =>
                   \E rel \in Range(collect_files) :
                       IsMd(rel) /\ p = OUTPUT \o NoteDocPath(rel)
        /\ \A p \in Below(RAW) :
               fs[p].kind = "file" =>
                   /\ RelativeTo(p, RAW) \in Range(collect_files)
                   /\ fs[p] = fs[Resolve(VAULT \o RelativeTo(p, RAW))]
        /\ \A p \in Below(OUTPUT) :
               (Parent(p) = OUTPUT
                   /\ Name(p) \in {ZipName(n) : n \in 1..4}) =>
                   Name(p) = ZipName(site.stamp)
        /\ (site.same /\ site.prev.ok) =>
               /\ Undated(site.docs) = Undated(site.prev.docs)
               /\ [p \in Below(RAW) |-> fs[p]] = site.prev.raw

\* A second run has completed on the vault the first one saw, the first
\* having found the output of an earlier export: its .git directory is
\* still there, its stale files are gone, and the notes have documents.
C26_Witness ==
    /\ Built /\ site.runs = 2 /\ site.same /\ site.prev.ok
    /\ Exists(<<"vault", "_site", ".git", "A.md">>)
    /\ ~Exists(<<"vault", "_site", "CNAME">>)
    /\ ~Exists(<<"vault", "_site", "data", "notes", "X.md.json">>)
    /\ Exists(<<"vault", "_site", "data", "notes", "Notes", "A.md.json">>)
    /\ Exists(<<"vault", "_site", "raw", "X.PNG">>)

(***************************************************************************)
(* Specification SpecRefusal: the requests of SpecServer, and between them *)
(* the change poll, so that a refused request may find a fingerprint in    *)
(* the cache.                                                              *)
(***************************************************************************)
\* _get_tree_hash run from its first line to its return by one thread: the
\* cache it leaves behind.
CheckedCache ==
    IF tree_cache.hash # NoneHash /\ FreshEnough(now, tree_cache.ts)
    THEN tree_cache
    ELSE [tree_cache EXCEPT !.hash = Digest(_walk_vault(VAULT)),
                            !.ep = epoch, !.ts = now]

\* api_check: GET /api/check
ApiCheck(c) ==
    /\ tree_cache' = CheckedCache
    /\ reply' = Rep("CHECK", 200)
    /\ UNCHANGED <<fs, _session_files, made, creates, netVars, handlerFrame>>

NextRefusal ==
    \/ NextServer
    \/ \E c \in Clients : ApiCheck(c)

SpecRefusal == InitServer /\ [][NextRefusal]_vars

\* The requests that change the vault.
WriteKinds == {"PUT", "DELETE", "NEW", "UPLOAD"}

\* The request was answered with a 4xx status.
Refused(r) == r.kind \in WriteKinds /\ r.status \in 400..499

\* C29: a PUT, DELETE, files/new or files/upload request answered with a 4xx
\* status leaves the files and directories of the vault, the session
\* ownership map and the fingerprint cache exactly as they were before it.
C29_NeverPartial ==
    [][Refused(reply)' =>
          /\ fs' = fs
          /\ _session_files' = _session_files
          /\ tree_cache' = tree_cache]_vars

\* A request has been refused while the cache held a fingerprint and a
\* session owned a file.
C29_Witness ==
    /\ Refused(reply)
    /\ tree_cache.hash # NoneHash
    /\ \E sid \in DOMAIN _session_files : _session_files[sid] # {}

(***************************************************************************)
(* Archive: api_download_all (server.py:424-441).                          *)
(***************************************************************************)
\* The members the loop writes, in order, while every one can be read.
DownloadNames ==
    RelativeAll(SelectSeq(SortPaths(RGlobAll(VAULT)),
        LAMBDA p : /\ is_file(p)
                   /\ ~HasExcludedPart(RelativeTo(p, VAULT))
                   /\ Name(p) \notin EXCLUDED_FILES))

\* GET /api/download-all: zf.write raises on a member that cannot be read.
api_download_all ==
    \E names \in {DownloadNames} :
        dl_reply' = IF \E i \in 1..Len(names) : Unreadable(names[i])
                    THEN [called |-> TRUE, ok |-> FALSE, names |-> <<>>]
                    ELSE [called |-> TRUE, ok |-> TRUE, names |-> names]

(***************************************************************************)
(* Specification SpecAgree: the four enumerations of the vault - the walk  *)
(* of the change detector, the tree, the graph and the archive - asked for *)
(* on one vault that does not change.  The vaults are put together from:   *)
(* a note in a folder, a note at the root, a regular file named like an    *)
(* excluded directory, a directory named like an excluded file with a note *)
(* in it, an excluded directory, and a link to a folder of the vault.      *)
(***************************************************************************)
AgreeParts ==
    { <<"vault", "Notes">> :> Dir
          @@ <<"vault", "Notes", "A.md">> :> File("a", 100),
      <<"vault", "B.md">> :> File("b", 100),
      <<"vault", "Notes">> :> Dir
          @@ <<"vault", "Notes", "Templates">> :> File("t", 100),
      <<"vault", "X">> :> Dir
          @@ <<"vault", "X", "server.py">> :> Dir
          @@ <<"vault", "X", "server.py", "B.md">> :> File("c", 100),
      <<"vault", ".git">> :> Dir
          @@ <<"vault", ".git", "A.md">> :> File("g", 100),
      <<"vault", "Notes">> :> Dir
          @@ <<"vault", "in">> :> Link(<<"vault", "Notes">>) }

AgreeVaults == {MergeParts(S) : S \in SUBSET AgreeParts}

InitAgree ==
    /\ fs \in AgreeVaults
    /\ raw_path = <<>> /\ sb_result = None /\ sb_prev = None /\ sb_calls = 0
    /\ hs_taken = FALSE /\ hs_fs = fs /\ hs_walk = <<>> /\ hs_input = <<>>
    /\ CacheIdle
    /\ observe = "none"
    /\ DerivedIdle
    /\ ServerIdle

DownloadAll ==
    /\ api_download_all
    /\ UNCHANGED <<fs, sandboxVars, hashVars, cacheVars, observe, walkVars,
                   tr_reply, gr_reply, site, md_reply, sg_reply, browser,
                   serverVars>>

NextAgree == FingerprintWalk \/ TreeCall \/ ApiGraph \/ DownloadAll

SpecAgree == InitAgree /\ [][NextAgree]_vars

\* The files each of the four lists.
WalkedSet == {hs_walk[i][1] : i \in 1..Len(hs_walk)}

TreeSet == {n.path : n \in FileNodes(tr_reply.tree)}

GraphSet ==
    {gr_reply.nodes[i].id :
        i \in {j \in 1..Len(gr_reply.nodes) :
                  gr_reply.nodes[j].group # "folder"}}

ArchiveSet == {dl_reply.names[i] : i \in 1..Len(dl_reply.names)}

AllListed ==
    /\ hs_taken /\ tr_reply.called /\ gr_reply.called
    /\ dl_reply.called /\ dl_reply.ok

\* C31: for every vault the walk, the file nodes of the tree, the non-folder
\* nodes of the graph and the members of the archive are the same set of
\* files: a file is in one of them if and only if it is in all of them.
C31_Original ==
    AllListed =>
        /\ WalkedSet = TreeSet
        /\ TreeSet = GraphSet
        /\ GraphSet = ArchiveSet

\* What the four do agree on: the graph and the archive list the same files,
\* and each of those is listed by the tree.
C31_GraphArchiveTree ==
    AllListed => GraphSet = ArchiveSet /\ GraphSet \subseteq TreeSet

(***************************************************************************)
(* Specification SpecTwoGraphs: api_graph and generate_graph run on one    *)
(* vault that does not change, the static generator on the list of         *)
(* collect_files.  The vaults are those of SpecGraph with or without a     *)
(* note at the root that collect_files leaves out.  What a search by name  *)
(* finds first is a matter of the filesystem and is the same for the two   *)
(* while the vault stays as it is; it is chosen at the start.              *)
(***************************************************************************)
TwoGraphParts ==
    GraphParts \cup {<<"vault", "_site_a.md">> :> File("b", 100)}

TwoGraphVaults == {MergeParts(S) : S \in SUBSET TwoGraphParts}

InitTwoGraphs ==
    /\ fs \in TwoGraphVaults
    /\ raw_path = <<>> /\ sb_result = None /\ sb_prev = None /\ sb_calls = 0
    /\ hs_taken = FALSE /\ hs_fs = fs /\ hs_walk = <<>> /\ hs_input = <<>>
    /\ CacheIdle
    /\ observe = "none"
    /\ wk_stack = <<>> /\ wk_out = <<>> /\ wk_done = <<>>
    /\ tr_reply = NoTree /\ gr_reply = NoGraph /\ md_reply = NoMarkdown
    /\ \E pick \in PicksOver(AskedNames) :
          site = [NoSite EXCEPT !.order = pick]
    /\ RestIdle
    /\ ServerIdle

twoGraphFrame ==
    <<fs, sandboxVars, hashVars, cacheVars, observe, walkVars, tr_reply,
      site, md_reply, dl_reply, browser, serverVars>>

\* GET /api/graph
LiveGraph ==
    /\ gr_reply' = BuildGraph(GraphFiles, site.order)
    /\ UNCHANGED <<twoGraphFrame, sg_reply>>

\* generate_graph(files) in build(), files being collect_files()
GenerateGraph ==
    /\ \E files \in {collect_files} :
          sg_reply' = BuildGraph(files, site.order)
    /\ UNCHANGED <<twoGraphFrame, gr_reply>>

NextTwoGraphs == LiveGraph \/ GenerateGraph

SpecTwoGraphs == InitTwoGraphs /\ [][NextTwoGraphs]_vars

\* The two were given the same set of files.
SameFileSet == Range(GraphFiles) = Range(collect_files)

C32_AnyFiles ==
    (gr_reply.called /\ sg_reply.called) => sg_reply.nodes = gr_reply.nodes

\* The group of the node of the latest graph that has this id.
GroupOf(id) ==
    LET i == CHOOSE j \in 1..Len(gr_reply.nodes) : gr_reply.nodes[j].id = id
    IN  gr_reply.nodes[i].group

\* Every edge joins two nodes of the list, and every folder edge goes from
\* a folder node to an entry directly inside that folder.
EdgesJoinNodes ==
    /\ \A i \in 1..Len(gr_reply.edges) :
          /\ gr_reply.edges[i].source \in NodeIds
          /\ gr_reply.edges[i].target \in NodeIds
    /\ \A e \in FolderEdges :
          /\ GroupOf(e[1]) = "folder"
          /\ Parent(e[2]) = e[1]

Poller == 1

\* pollCheck on a response carrying tree_hash: reloadTree when a hash is on
\* record and the new one differs, then lastTreeHash = data.tree_hash.  The
\* tree is fetched from /api/tree, which builds it from the vault as it is.
Handled(b, tree_hash) ==
    [last |-> tree_hash,
     treeEp |-> IF b.last # NoneHash /\ tree_hash # b.last
                THEN epoch ELSE b.treeEp,
     seen |-> IF tree_hash # NoneHash THEN b.seen \cup {tree_hash}
              ELSE b.seen]

pollFrame ==
    <<sandboxVars, hashVars, observe, walkVars, tr_reply, gr_reply, site,
      md_reply, dl_reply, sg_reply, serverVars>>

\* api_check, line 274: the response is sent; the page handles it.
PollDone ==
    /\ th[Poller].pc = "done"
    /\ browser' = Handled(browser, th[Poller].ret)
    /\ th' = [th EXCEPT ![Poller] = IdleThread]
    /\ UNCHANGED <<fs, tree_cache, now, epoch, wrote_ep, last_call,
                   overlapped, pollFrame>>

InitPoll == InitCacheObserving("none")

\* The steps of one poll of the page.
PollStep ==
    \/ StartCheck(Poller) \/ ReadHash(Poller) \/ ReadTs(Poller)
    \/ ReturnCached(Poller) \/ Walk(Poller) \/ StoreHash(Poller)
    \/ StoreTs(Poller) \/ PollDone

\* The steps of the requests of others.
OtherStep ==
    \E t \in Threads \ {Poller} :
        \/ StartCheck(t) \/ ReadHash(t) \/ ReadTs(t) \/ ReturnCached(t)
        \/ Walk(t) \/ StoreHash(t) \/ StoreTs(t) \/ FinishCheck(t)
        \/ InvalidateHash(t) \/ InvalidateTs(t)

NextPoll ==
    \/ PollStep
    \/ OtherStep
    \/ \E t \in Threads \ {Poller} : PutWrite(t)
    \/ DiskEdit
    \/ Tick

SpecPoll == InitPoll /\ [][NextPoll]_vars

\* A response that has been sent is handled by the page, and time passes.
SpecPollFair == SpecPoll /\ WF_vars(PollDone) /\ WF_vars(Tick)

\* The page keeps polling: again and again a response is sent to it.
KeepsPolling == []<>(th[Poller].pc = "done")

\* The fingerprint of the vault as it is.
Fingerprint == Digest(_walk_vault(VAULT))

\* The page has on record the fingerprint of the vault as it is, and has
\* recorded a different one before.
GotFinalAfterOther ==
    /\ browser.last = Fingerprint
    /\ browser.seen \ {Fingerprint} # {}

\* The tree the page shows was loaded from the vault as it is.
TreeCurrent == browser.treeEp = epoch

\* C34 as stated, for the page that has recorded an earlier hash: once the
\* vault stays unchanged, the page that keeps polling receives the
\* fingerprint of the final state and reloads its tree, so that from some
\* time on it shows the tree of the final state.
C34_Original == KeepsPolling => (GotFinalAfterOther ~> TreeCurrent)

(***************************************************************************)
(* Specification SpecLoopTree: build_tree on vaults that hold symbolic     *)
(* links to their own ancestors - a link to the directory it lies in and a *)
(* link to the directory two levels up - beside a folder that cannot be    *)
(* listed and a link that leads out of the vault.                          *)
(***************************************************************************)
LoopParts ==
    { <<"vault", "Notes">> :> Dir
          @@ <<"vault", "Notes", "A.md">> :> File("a", 100),
      <<"vault", "Notes">> :> Dir
          @@ <<"vault", "Notes", "in">> :> Link(<<"vault", "Notes">>),
      <<"vault", "Notes">> :> Dir
          @@ <<"vault", "Notes", "hid">> :> LockedDir
          @@ <<"vault", "Notes", "hid", "A.md">> :> File("h", 100),
      <<"vault", "X">> :> Dir
          @@ <<"vault", "X", "B.md">> :> File("c", 100),
      <<"vault", "X">> :> Dir
          @@ <<"vault", "X", "Notes">> :> Dir
          @@ <<"vault", "X", "Notes", "out">> :> Link(<<"vault", "X">>),
      <<"vault", "B.md">> :> File("e", 100),
      <<"vault", "out">> :> Link(<<"etc">>) }

LoopVaults == {MergeParts(S) : S \in SUBSET LoopParts}

InitLoopTree ==
    /\ fs \in LoopVaults
    /\ raw_path = <<>> /\ sb_result = None /\ sb_prev = None /\ sb_calls = 0
    /\ hs_taken = FALSE /\ hs_fs = fs /\ hs_walk = <<>> /\ hs_input = <<>>
    /\ CacheIdle
    /\ observe = "none"
    /\ DerivedIdle
    /\ ServerIdle

NextLoopTree == TreeCall

SpecLoopTree == InitLoopTree /\ [][NextLoopTree]_vars

Largest(S) == CHOOSE n \in S : \A m \in S : m <= n

\* The calls of build_tree that are on the stack at once while the tree is
\* built: the call that returns the list, and under it the deepest call
\* made for one of its folder nodes.
RECURSIVE CallDepth(_)
CallDepth(tree) ==
    1 + Largest({0} \cup {CallDepth(tree[i].children) :
                             i \in {j \in 1..Len(tree) :
                                       tree[j].type = "folder"}})

\* The directories of the vault that build_tree lists or tries to list.
RealDirs ==
    {p \in DOMAIN fs :
        /\ IsPrefix(VAULT, p)
        /\ fs[p].kind = "dir"
        /\ \A i \in (Len(VAULT) + 1)..Len(p) : p[i] \notin EXCLUDED_DIRS}

\* The depth of the vault's directory structure: the root counts one.
RealDepth == Largest({Len(p) - Len(VAULT) + 1 : p \in RealDirs})

\* The folder nodes of a tree.
RECURSIVE FolderNodes(_)
FolderNodes(tree) ==
    UNION {IF tree[i].type = "folder"
              THEN {tree[i]} \cup FolderNodes(tree[i].children) ELSE {} :
              i \in 1..Len(tree)}

\* A folder that cannot be listed is a folder node without children.
DeniedEmpty ==
    \A n \in FolderNodes(tr_reply.tree) :
        IterdirDenied(VAULT \o n.path) => n.children = <<>>

\* C35 as stated: build_tree returns a tree for every vault, its recursion
\* is no deeper than the directories of the vault are - also when the vault
\* holds a symbolic link to an ancestor directory - and a subdirectory that
\* cannot be read is a folder node with an empty list of children.
C35_Original ==
    tr_reply.called =>
        /\ CallDepth(tr_reply.tree) <= RealDepth
        /\ DeniedEmpty

\* What the code keeps: the recursion ends, a link to an ancestor is
\* entered again and again until the system refuses the path, which bounds
\* the depth by the depth of the directories times the links allowed on a
\* path plus one; a subdirectory that cannot be read has no children.
C35_DepthByLinks ==
    tr_reply.called =>
        /\ CallDepth(tr_reply.tree) <= RealDepth * (MAXSYMLINKS + 1)
        /\ DeniedEmpty

\* A vault with a link to an ancestor whose tree is deeper than its
\* directories, beside a folder that cannot be listed.
C35_Witness ==
    /\ tr_reply.called
    /\ CallDepth(tr_reply.tree) > RealDepth
    /\ \E n \in FolderNodes(tr_reply.tree) : IterdirDenied(VAULT \o n.path)

(***************************************************************************)
(* Specification SpecRace: the worker threads of the server handle the     *)
(* requests of two sessions at the same time.  A handler is a sequence of  *)
(* steps - the tests up to fpath.exists() or _sid_owns(), the write or the *)
(* unlink, the update of the ownership map with the invalidation and the   *)
(* response - and the steps of different requests interleave.  A request   *)
(* on its way is a record in requests that carries the handler's position  *)
(* and the path it settled on.  Both sessions exist from the start, each   *)
(* client holds its cookie, and edit-all is disabled.  The renaming loop   *)
(* of the upload handler is taken as one step.                             *)
(***************************************************************************)
MaxRequests == 4

RaceNewPaths == {<<"X">>}

RaceUploadNames == {"X.md"}

RaceEditPaths == {<<"X.md">>}

RaceSid(c) == IF c = "c1" THEN 1 ELSE 2

InitRace ==
    /\ fs = ServerFs0
    /\ raw_path = <<>> /\ sb_result = None /\ sb_prev = None /\ sb_calls = 0
    /\ hs_taken = FALSE /\ hs_fs = ServerFs0 /\ hs_walk = <<>>
    /\ hs_input = <<>>
    /\ CacheIdle
    /\ observe = "none"
    /\ DerivedIdle
    /\ ALLOW_EDIT_ALL = FALSE
    /\ ALLOW_FILE_CREATION = TRUE
    /\ _session_files = [s \in {RaceSid(c) : c \in Clients} |-> {}]
    /\ cookie = [c \in Clients |-> RaceSid(c)]
    /\ requests = {}
    /\ responses = {}
    /\ reply = NoReply
    /\ made = {}
    /\ creates = 0

\* What the steps of a handler leave alone, besides what they name.
raceFrame == <<cookie, responses, creates, handlerFrame>>

\* fetch(...): a client sends a request while it awaits no response.
RaceSend(c, kind, path, content) ==
    /\ creates < MaxRequests
    /\ \A r \in requests : r.client # c
    /\ creates' = creates + 1
    /\ requests' = requests \cup
          {[client |-> c, sid |-> cookie[c], kind |-> kind, path |-> path,
            content |-> content, pc |-> "start", dest |-> <<>>]}
    /\ UNCHANGED <<fs, _session_files, tree_cache, reply, made, cookie,
                   responses, handlerFrame>>

\* The handler of r moves on to position pc, having settled on dest.
Goes(r, pc, dest) ==
    requests' = (requests \ {r}) \cup {[r EXCEPT !.pc = pc, !.dest = dest]}

\* The handler of r returns.
Returns(r) == requests' = requests \ {r}

\* The entry at a real path, if any.
EntryAt(p) == IF Exists(p) THEN fs[p] ELSE Absent

\* api_files_new up to "if fpath.exists()" (server.py:345-363)
NewExists(r) ==
    /\ r.kind = "NEW" /\ r.pc = "start"
    /\ LET raw == r.path
           last == Chars(Name(raw))
           parts == IF EndsWith(last, DotMd) THEN raw
                    ELSE [raw EXCEPT ![Len(raw)] = NameOf(last \o DotMd)]
           clean_parts == [i \in 1..Len(parts) |-> secure_filename(parts[i])]
           fpath == _safe_vault_path(clean_parts)
       IN  IF ~ALLOW_FILE_CREATION
           THEN Refuse(Rep("NEW", 403)) /\ Returns(r)
           ELSE IF \E i \in 1..Len(parts) : clean_parts[i] = ""
           THEN Refuse(Rep("NEW", 400)) /\ Returns(r)
           ELSE IF ~fpath.ok THEN Refuse(Rep("NEW", 400)) /\ Returns(r)
           ELSE IF PathExists(fpath.path)
           THEN /\ Refuse([Rep("NEW", 409) EXCEPT
                              !.path = fpath.path,
                              !.before = EntryAt(fpath.path)])
                /\ Returns(r)
           ELSE /\ Goes(r, "checked", fpath.path)
                /\ UNCHANGED <<fs, _session_files, tree_cache, reply, made>>
    /\ UNCHANGED raceFrame

\* api_files_upload up to the end of the renaming loop (server.py:374-410)
UploadExists(r) ==
    /\ r.kind = "UPLOAD" /\ r.pc = "start"
    /\ LET fname == secure_filename(Name(r.path))
           ext == Lower(Suffix(Chars(fname)))
           fpath == _safe_vault_path(<<fname>>)
           final == Renamed(fpath.path, Stem(Chars(fname)), ext, FALSE, 1)
       IN  IF ~ALLOW_FILE_CREATION
           THEN Refuse(Rep("UPLOAD", 403)) /\ Returns(r)
           ELSE IF fname = "" THEN Refuse(Rep("UPLOAD", 400)) /\ Returns(r)
           ELSE IF ext \notin ALLOWED_UPLOAD_EXTENSIONS
           THEN Refuse(Rep("UPLOAD", 400)) /\ Returns(r)
           ELSE IF ~fpath.ok THEN Refuse(Rep("UPLOAD", 400)) /\ Returns(r)
           ELSE IF ~final.ok THEN Refuse(Rep("UPLOAD", 409)) /\ Returns(r)
           ELSE /\ Goes(r, "checked", final.path)
                /\ UNCHANGED <<fs, _session_files, tree_cache, reply, made>>
    /\ UNCHANGED raceFrame

\* fpath.parent.mkdir(parents=True, exist_ok=True); fpath.write_text("") or
\* f.save(str(fpath)): the file is opened for writing and truncated,
\* whatever it holds by now (server.py:364-365, 411-412).
CreateWrite(r) ==
    /\ r.kind \in {"NEW", "UPLOAD"} /\ r.pc = "checked"
    /\ fs' = WriteText(MkdirParents(fs, Parent(r.dest)), r.dest,
                       r.content.val)
    /\ reply' = [Rep(r.kind, 0) EXCEPT
                    !.act = "create", !.path = r.dest,
                    !.rel = RelativeTo(r.dest, VAULT), !.sid = r.sid,
                    !.before = EntryAt(r.dest)]
    /\ Goes(r, "written", r.dest)
    /\ UNCHANGED <<_session_files, tree_cache, made, raceFrame>>

\* _session_files[sid].add(rel_str); _invalidate_tree_cache(); the
\* response (server.py:366-372, 413-421).
CreateAdd(r) ==
    /\ r.kind \in {"NEW", "UPLOAD"} /\ r.pc = "written"
    /\ LET rel_str == RelativeTo(r.dest, VAULT)
           got == _get_or_create_sid(r.sid)
       IN  /\ _session_files' =
                  [got.files EXCEPT ![got.sid] = @ \cup {rel_str}]
           /\ made' = made \cup
                  {[client |-> r.client, sid |-> got.sid, rel |-> rel_str]}
           /\ reply' = [Rep(r.kind, 200) EXCEPT
                           !.path = r.dest, !.rel = rel_str, !.sid = r.sid,
                           !.set_cookie = IF got.needs_set THEN got.sid
                                          ELSE NoCookie]
    /\ tree_cache' = Invalidated(tree_cache)
    /\ Returns(r)
    /\ UNCHANGED <<fs, raceFrame>>

\* _api_note_put and _api_note_delete up to the ownership test
\* (server.py:299-303, 315-319); for PUT also the type of the content.
EditOwns(r) ==
    /\ r.kind \in {"PUT", "DELETE"} /\ r.pc = "start"
    /\ LET fpath == _safe_vault_path(r.path)
           rel_str == RelativeTo(fpath.path, VAULT)
       IN  IF ~fpath.ok \/ ~is_file(fpath.path)
           THEN Refuse(Rep(r.kind, 404)) /\ Returns(r)
           ELSE IF ~_sid_owns(r.sid, rel_str)
           THEN /\ Refuse([Rep(r.kind, 403) EXCEPT !.path = fpath.path])
                /\ Returns(r)
           ELSE IF r.kind = "PUT" /\ r.content.type # "str"
           THEN Refuse(Rep(r.kind, 400)) /\ Returns(r)
           ELSE /\ Goes(r, "checked", fpath.path)
                /\ UNCHANGED <<fs, _session_files, tree_cache, reply, made>>
    /\ UNCHANGED raceFrame

\* fpath.write_text(content); _invalidate_tree_cache(); the response
\* (server.py:308-310).  The file is created when it is gone by now.
PutWriteText(r) ==
    /\ r.kind = "PUT" /\ r.pc = "checked"
    /\ fs' = WriteText(fs, r.dest, r.content.val)
    /\ tree_cache' = Invalidated(tree_cache)
    /\ reply' = [Rep("PUT", 200) EXCEPT
                    !.act = "write", !.path = r.dest,
                    !.rel = RelativeTo(r.dest, VAULT), !.sid = r.sid,
                    !.content = r.content, !.before = EntryAt(r.dest)]
    /\ Returns(r)
    /\ UNCHANGED <<_session_files, made, raceFrame>>

\* fpath.unlink() (server.py:320): FileNotFoundError, and with it status
\* 500, when the file is gone by now.
DeleteUnlink(r) ==
    /\ r.kind = "DELETE" /\ r.pc = "checked"
    /\ IF ~Exists(r.dest)
       THEN Refuse(Rep("DELETE", 500)) /\ Returns(r)
       ELSE /\ fs' = Unlink(fs, r.dest)
            /\ reply' = [Rep("DELETE", 0) EXCEPT
                            !.act = "remove", !.path = r.dest,
                            !.rel = RelativeTo(r.dest, VAULT), !.sid = r.sid,
                            !.before = fs[r.dest]]
            /\ Goes(r, "unlinked", r.dest)
            /\ UNCHANGED <<_session_files, tree_cache, made>>
    /\ UNCHANGED raceFrame

\* _session_files[sid].discard(rel_str); _invalidate_tree_cache(); the
\* response (server.py:321-325).
DeleteDiscard(r) ==
    /\ r.kind = "DELETE" /\ r.pc = "unlinked"
    /\ LET rel_str == RelativeTo(r.dest, VAULT)
       IN  /\ _session_files' =
                  IF r.sid \in DOMAIN _session_files
                  THEN [_session_files EXCEPT ![r.sid] = @ \ {rel_str}]
                  ELSE _session_files
           /\ made' = {m \in made : ~(m.sid = r.sid /\ m.rel = rel_str)}
           /\ reply' = [Rep("DELETE", 200) EXCEPT
                           !.path = r.dest, !.rel = rel_str, !.sid = r.sid]
    /\ tree_cache' = Invalidated(tree_cache)
    /\ Returns(r)
    /\ UNCHANGED <<fs, raceFrame>>

NextRace ==
    \/ \E c \in Clients, p \in RaceNewPaths : RaceSend(c, "NEW", p, Text(""))
    \/ \E c \in Clients, n \in RaceUploadNames :
          RaceSend(c, "UPLOAD", <<n>>, Text("u"))
    \/ \E c \in Clients, p \in RaceEditPaths : RaceSend(c, "PUT", p, Text("a"))
    \/ \E c \in Clients, p \in RaceEditPaths :
          RaceSend(c, "DELETE", p, Text(""))
    \/ \E r \in requests : NewExists(r)
    \/ \E r \in requests : UploadExists(r)
    \/ \E r \in requests : CreateWrite(r)
    \/ \E r \in requests : CreateAdd(r)
    \/ \E r \in requests : EditOwns(r)
    \/ \E r \in requests : PutWriteText(r)
    \/ \E r \in requests : DeleteUnlink(r)
    \/ \E r \in requests : DeleteDiscard(r)

SpecRace == InitRace /\ [][NextRace]_vars

\* C36 as stated: with edit-all disabled and the files changed through the
\* API only, however the concurrent files/new, files/upload and DELETE
\* requests of different sessions interleave, a path is in the ownership
\* set of at most one session.
C36_Original ==
    ~ALLOW_EDIT_ALL =>
        \A s1, s2 \in DOMAIN _session_files :
            s1 # s2 => _session_files[s1] \cap _session_files[s2] = {}

\* The same while the server is at rest: no request is on its way.
C36_AtRest == requests = {} => C36_Original

\* The texts a PUT request of the race carries.
PutTexts == {"a"}

\* C37 as stated: creating a file never overwrites one - files/new on a
\* path that exists answers 409 and leaves the file as it is, an upload is
\* stored under a name no file bears, and however the concurrent files/new,
\* upload and PUT requests on one path interleave, what a PUT wrote is never
\* replaced by a creation.
C37_Original ==
    /\ (reply.kind = "NEW" /\ reply.status = 409) =>
           fs[reply.path] = reply.before
    /\ reply.act = "create" => reply.before = Absent

\* The last part of C37 alone: the file a creation writes over, if any, does
\* not hold the text of a PUT.
C37_PutKept ==
    reply.act = "create" =>
        ~(reply.before.kind = "file" /\ reply.before.content \in PutTexts)

\* The part of C37 that concerns one request at a time: when a creation
\* handler has made its test, the path it settled on bears no file - at the
\* time of the test.
C37_FreeWhenTested ==
    [][\A r \in requests :
          (r.pc = "start" /\ r.kind \in {"NEW", "UPLOAD"}) =>
              \A q \in requests' :
                  (q.client = r.client /\ q.pc = "checked") =>
                      ~PathExists(q.dest)]_vars

(***************************************************************************)
(* The tree of an export against its copies and note documents (checked    *)
(* under SpecBuild).                                                       *)
(***************************************************************************)
\* The paths of the file nodes of data/tree.json.
ExportTreeFiles ==
    {node.path : node \in FileNodes(site.docs[<<"data", "tree.json">>].tree)}

\* The files below raw/, by their paths from raw/.
ExportRawFiles ==
    {RelativeTo(p, RAW) : p \in {q \in Below(RAW) : fs[q].kind = "file"}}

\* The notes that have a document below data/notes.
ExportNoteFiles == {site.docs[q].path : q \in NoteDocsWritten}

\* raw/<rel> holds the bytes of the vault's file rel.
SameBytes(rel) ==
    /\ is_file(VAULT \o rel)
    /\ fs[RAW \o rel].content = fs[Resolve(VAULT \o rel)].content

\* C38 as stated: in every export, every file node of data/tree.json has a
\* copy raw/<path> with the same bytes, every file node for a markdown file
\* has a document data/notes/<path>.json, and every copy and every document
\* has its file node.
C38_Original ==
    Built =>
        /\ ExportTreeFiles = ExportRawFiles
        /\ {rel \in ExportTreeFiles : IsMd(rel)} = ExportNoteFiles
        /\ \A rel \in ExportRawFiles : SameBytes(rel)

\* The direction that holds on these vaults: every copy holds the bytes of
\* its file and has, like every note document, a file node in the tree.
C38_CopiesListed ==
    Built =>
        /\ ExportRawFiles \subseteq ExportTreeFiles
        /\ ExportNoteFiles \subseteq {rel \in ExportTreeFiles : IsMd(rel)}
        /\ \A rel \in ExportRawFiles : SameBytes(rel)

(***************************************************************************)
(* Specification SpecFollow: the graph of the live server and the link a   *)
(* reader follows.  The vaults hold a note that links to a name two notes  *)
(* in different folders bear, a note that links to A, a file A without     *)
(* suffix beside a note A.md, and a note that links to the folder Notes,   *)
(* with or without a note Notes.md beside the folder.  The vault stays as  *)
(* it is and the filesystem lists it in one order, site.order, for the     *)
(* graph and for the lookups alike.                                        *)
(***************************************************************************)
FollowParts ==
    { <<"vault", "Notes">> :> Dir
          @@ <<"vault", "Notes", "A.md">>
                 :> File("See [[B]] and [[missing]].", 100),
      <<"vault", "Notes">> :> Dir
          @@ <<"vault", "Notes", "B.md">> :> File("b", 100),
      <<"vault", "X">> :> Dir
          @@ <<"vault", "X", "B.md">> :> File("c", 100),
      <<"vault", "Notes">> :> Dir
          @@ <<"vault", "Notes", "X">> :> Dir
          @@ <<"vault", "Notes", "X", "Y.md">>
                 :> File("[[Y]] [[A]] [[A|again]] [[A]]", 100),
      <<"vault", "A">> :> File("d", 100),
      <<"vault", "A.md">> :> File("e", 100),
      <<"vault", "B.md">>
          :> File("[[Notes/A]] [[Notes]] [[out/A]] [[", 100),
      <<"vault", "Notes.md">> :> File("f", 100) }

FollowVaults == {MergeParts(S) : S \in SUBSET FollowParts}

InitFollow ==
    /\ fs \in FollowVaults
    /\ raw_path = <<>> /\ sb_result = None /\ sb_prev = None /\ sb_calls = 0
    /\ hs_taken = FALSE /\ hs_fs = fs /\ hs_walk = <<>> /\ hs_input = <<>>
    /\ CacheIdle
    /\ observe = "none"
    /\ wk_stack = <<>> /\ wk_out = <<>> /\ wk_done = <<>>
    /\ tr_reply = NoTree /\ gr_reply = NoGraph /\ md_reply = NoMarkdown
    /\ \E pick \in PicksOver(AskedNames) :
          site = [NoSite EXCEPT !.order = pick]
    /\ RestIdle
    /\ ServerIdle

\* replace_link: the path after the scheme in the destination of the link
\* made for [[target]] - the target itself when it has a suffix, the
\* target with ".md" appended when it has none.
LinkDestination(target) ==
    IF Suffix(Chars(Name(target))) = <<>> THEN AppendMd(target) ELSE target

\* resolve_vault_path on a filesystem that lists in the order pick.
ResolveInOrder(note_path, pick) ==
    IF PathExists(Join(VAULT, note_path)) THEN Some(Join(VAULT, note_path))
    ELSE IF pick[Name(note_path)].ok
    THEN Some(Join(VAULT, pick[Name(note_path)].path))
    ELSE None

\* The wikilinks of the latest graph that made a link edge: the note, the
\* target as written, and the node the edge leads to.
EdgeLinks ==
    {gr_reply.resolved[i] :
        i \in {j \in 1..Len(gr_reply.resolved) :
                 Emits(gr_reply.resolved[j].target_path, gr_reply.nodes,
                       gr_reply.resolved[j].source)}}

followFrame ==
    <<fs, sandboxVars, hashVars, cacheVars, observe, walkVars, tr_reply,
      gr_reply, site, md_reply, dl_reply, sg_reply, browser, configVars,
      _session_files, netVars, made, creates>>

\* The reader opens note e.source and follows its link [[e.target]]: the
\* page requests the destination replace_link gave the link (GET
\* /api/note/<path>, or /raw/<path> for a picture or a PDF), and the
\* handler answers with the file resolve_vault_path finds.
FollowLink ==
    /\ \E e \in EdgeLinks :
          LET fpath == ResolveInOrder(LinkDestination(e.target), site.order)
              answer ==
                  IF ~fpath.ok \/ ~is_file(fpath.path) THEN Rep("GET", 404)
                  ELSE IF ~IsRelativeTo(Resolve(fpath.path), VAULT)
                  THEN Rep("GET", 403)
                  ELSE [Rep("GET", 200) EXCEPT
                           !.act = "read", !.path = fpath.path,
                           !.rel = RelativeTo(fpath.path, VAULT)]
          IN  reply' = [from |-> e.source, link |-> e.target,
                        to |-> e.target_path.path] @@ answer
    /\ UNCHANGED followFrame

NextFollow == LiveGraph \/ FollowLink

SpecFollow == InitFollow /\ [][NextFollow]_vars

\* C39 as stated: a link edge s -> t the graph has for a wikilink [[x]] of
\* note s agrees with navigation - following that link in the rendered
\* note loads t - also when both x and x.md exist or several files bear the
\* name.
C39_Original ==
    reply.kind = "GET" => (reply.status = 200 /\ reply.rel = reply.to)

\* What holds: the two agree unless the target, written without a suffix,
\* is itself the path of an entry of the vault - then the edge leads to
\* that entry and the link to the note of that name with ".md".
C39_UnlessBare ==
    reply.kind = "GET" =>
        \/ reply.status = 200 /\ reply.rel = reply.to
        \/ /\ reply.to = reply.link
           /\ Suffix(Chars(Name(reply.link))) = <<>>

\* A link by a name two notes bear was followed to the note the edge names.
C39_SharedName ==
    /\ reply.kind = "GET" /\ reply.status = 200
    /\ reply.link = <<"B">> /\ reply.rel = reply.to
    /\ Exists(<<"vault", "Notes", "B.md">>) /\ Exists(<<"vault", "X", "B.md">>)
    /\ ~Exists(<<"vault", "B.md">>)

\* Both A and A.md exist: the edge of [[A]] leads to the file A, and the
\* link loads the note A.md.
C39_BothExist ==
    /\ reply.kind = "GET" /\ reply.status = 200
    /\ reply.link = <<"A">> /\ reply.to = <<"A">> /\ reply.rel = <<"A.md">>

(***************************************************************************)
(* Specification SpecEdit: the page, showing a note its reader may edit,   *)
(* while the note changes on disk.  The script of the page runs one task   *)
(* at a time; an async function gives way at each await, and the response  *)
(* to a fetch is handled in a task of its own, so the parts of pollCheck,  *)
(* loadNote and enterEditMode interleave at their awaits.  browser holds   *)
(* editMode, what the content area shows, currentNoteMtime, the position   *)
(* of the poll, the calls of loadNote that await their response, the      *)
(* position of enterEditMode, whether the tree was reloaded, and whether a *)
(* reload of the note that a poll started has replaced the editor.         *)
(* lastTreeHash is not null (a poll has been handled before) and the page  *)
(* is visible.                                                             *)
(***************************************************************************)
MaxTouches == 2

ShownNote == <<"Y.md">>

NoMtime == 0

EditPage ==
    [editMode |-> FALSE, shows |-> "note", mtime |-> 1,
     poll |-> "idle", note_mtime |-> NoMtime, loads |-> {}, raw |-> "none",
     tree_reloaded |-> FALSE, replaced |-> FALSE]

InitEdit ==
    /\ fs = ServerFs0
    /\ raw_path = <<>> /\ sb_result = None /\ sb_prev = None /\ sb_calls = 0
    /\ hs_taken = FALSE /\ hs_fs = ServerFs0 /\ hs_walk = <<>>
    /\ hs_input = <<>>
    /\ CacheIdle
    /\ observe = "none"
    /\ wk_stack = <<>> /\ wk_out = <<>> /\ wk_done = <<>>
    /\ tr_reply = NoTree /\ gr_reply = NoGraph /\ md_reply = NoMarkdown
    /\ site = NoSite
    /\ dl_reply = NoDownload /\ sg_reply = NoGraph
    /\ browser = EditPage
    /\ ALLOW_EDIT_ALL = TRUE
    /\ ALLOW_FILE_CREATION = TRUE
    /\ NobodyYet

editFrame ==
    <<sandboxVars, hashVars, cacheVars, observe, walkVars, tr_reply,
      gr_reply, site, md_reply, dl_reply, sg_reply, serverVars>>

\* The note is changed on disk by another program.
NoteTouched ==
    /\ fs[VAULT \o ShownNote].mtime <= MaxTouches
    /\ fs' = [fs EXCEPT ![VAULT \o ShownNote].mtime = @ + 1]
    /\ UNCHANGED <<browser, editFrame>>

\* api_check and api_note: fpath.stat().st_mtime of the note, when
\* resolve_vault_path finds a file.
StatMtime(note_path) ==
    {IF fpath.ok /\ is_file(fpath.path) THEN fs[Resolve(fpath.path)].mtime
     ELSE NoMtime : fpath \in resolve_vault_path(note_path)}

\* setInterval fires and pollCheck runs up to "await fetch(url)".
PollStart ==
    /\ browser.poll = "idle"
    /\ browser' = [browser EXCEPT !.poll = "sent"]
    /\ UNCHANGED <<fs, editFrame>>

\* The server handles GET /api/check?note=...
CheckServed ==
    /\ browser.poll = "sent"
    /\ \E m \in StatMtime(ShownNote) :
          browser' = [browser EXCEPT !.poll = "served", !.note_mtime = m]
    /\ UNCHANGED <<fs, editFrame>>

\* loadNote(path) up to "await fetch('/api/note/' ...)".
LoadStarted(b, by) ==
    [b EXCEPT !.loads = @ \cup {[by |-> by, pc |-> "sent", mtime |-> NoMtime]}]

\* pollCheck from "lastTreeHash = data.tree_hash" to its end.
PollRest(b) ==
    IF /\ ~b.editMode
       /\ b.mtime # NoMtime /\ b.note_mtime # NoMtime
       /\ b.note_mtime # b.mtime
    THEN [LoadStarted(b, "poll") EXCEPT !.poll = "idle"]
    ELSE [b EXCEPT !.poll = "idle"]

\* The response to /api/check arrives: tree_hash differs from lastTreeHash
\* or not; when it does, pollCheck goes on to "await reloadTree()".
CheckBack ==
    /\ browser.poll = "served"
    /\ \E differs \in BOOLEAN :
          browser' = IF differs THEN [browser EXCEPT !.poll = "reloading"]
                     ELSE PollRest(browser)
    /\ UNCHANGED <<fs, editFrame>>

\* reloadTree has ended.
TreeBack ==
    /\ browser.poll = "reloading"
    /\ browser' = PollRest([browser EXCEPT !.tree_reloaded = TRUE])
    /\ UNCHANGED <<fs, editFrame>>

\* The server handles GET /api/note/<path>.
NoteServed ==
    /\ \E l \in browser.loads, m \in StatMtime(ShownNote) :
          /\ l.pc = "sent"
          /\ browser' = [browser EXCEPT
                !.loads = (@ \ {l}) \cup
                              {[l EXCEPT !.pc = "served", !.mtime = m]}]
    /\ UNCHANGED <<fs, editFrame>>

\* The response arrives and loadNote runs on: the content area is given
\* the rendered note, currentNoteMtime = data.mtime, editMode = false.
NoteBack ==
    /\ \E l \in browser.loads :
          /\ l.pc = "served"
          /\ browser' = [browser EXCEPT
                !.loads = @ \ {l},
                !.shows = "note",
                !.mtime = l.mtime,
                !.editMode = FALSE,
                !.replaced = @ \/ (l.by = "poll" /\ browser.editMode)]
    /\ UNCHANGED <<fs, editFrame>>

\* The reader clicks Edit (the button is there while editMode is false and
\* the note editable): enterEditMode up to "await fetch('/api/note-raw/'".
ClickEdit ==
    /\ ~browser.editMode /\ browser.shows = "note" /\ browser.raw = "none"
    /\ browser' = [browser EXCEPT !.raw = "sent"]
    /\ UNCHANGED <<fs, editFrame>>

\* The server handles GET /api/note-raw/<path>.
RawServed ==
    /\ browser.raw = "sent"
    /\ browser' = [browser EXCEPT !.raw = "served"]
    /\ UNCHANGED <<fs, editFrame>>

\* The response arrives: editMode = true and the editor takes the place of
\* the note.
RawBack ==
    /\ browser.raw = "served"
    /\ browser' = [browser EXCEPT
          !.raw = "none", !.editMode = TRUE, !.shows = "editor"]
    /\ UNCHANGED <<fs, editFrame>>

\* The reader clicks Cancel: cancelEdit.
ClickCancel ==
    /\ browser.editMode /\ browser.shows = "editor"
    /\ browser' = LoadStarted([browser EXCEPT !.editMode = FALSE], "cancel")
    /\ UNCHANGED <<fs, editFrame>>

NextEdit ==
    \/ NoteTouched \/ PollStart \/ CheckServed \/ CheckBack \/ TreeBack
    \/ NoteServed \/ NoteBack \/ ClickEdit \/ RawServed \/ RawBack
    \/ ClickCancel

SpecEdit == InitEdit /\ [][NextEdit]_vars

\* C40 as stated: while the page is in edit mode, no result of a poll
\* replaces the editor or leaves edit mode - a reload of the note that a
\* poll started never completes after edit mode was entered.
C40_Original == ~browser.replaced

\* What pollCheck itself keeps: it starts no reload of the note while the
\* page is in edit mode.
C40_NoneStarted ==
    [][browser.editMode =>
          \A l \in browser'.loads :
              (l.by = "poll" /\ l.pc = "sent") => l \in browser.loads]_vars
=============================================================================
